---- MODULE Spec2Model ----
(***************************************************************************)
(* Container / snapshot lifecycle of the containerd runtime of cne.        *)
(*                                                                         *)
(* The daemon's state is three maps keyed by the composed containerd ID:   *)
(* container objects (with their labels), tasks and the snapshot chains.   *)
(* Every handler of container.go is an operator that takes the daemon's    *)
(* state w and returns the new state together with the error it reports;   *)
(* the actions of Spec apply one whole handler at a time.                  *)
(***************************************************************************)
EXTENDS Integers, Sequences, FiniteSets, TLC

\* nil, a missing map entry, an absent argument: the empty sequence; what is
\* present is the one-element sequence of its value (an ID is its own sequence)
None == <<>>

(* ---------------------------------------------------------------- bounds *)

\* containers the daemon creates in one behaviour (object identities)
MaxCreates == 2
\* snapshots committed on top of the first one, per key
MaxLayers == 1

(* ------------------------------------------------------------ identifiers *)

\* domain, id and generation are [16]byte
IdLen == 16

Bytes16(n) == [i \in 1..IdLen |-> IF i = IdLen THEN n ELSE 0]

Domains == {Bytes16(1)}
Ids == {Bytes16(10)}
Generations == {Bytes16(0), Bytes16(171)}

HexDigits == <<"0", "1", "2", "3", "4", "5", "6", "7",
               "8", "9", "a", "b", "c", "d", "e", "f">>

\* encoding/hex Encode: two lowercase digits per byte
RECURSIVE Encode(_)
Encode(bs) ==
    IF bs = <<>> THEN <<>>
    ELSE <<HexDigits[(Head(bs) \div 16) + 1], HexDigits[(Head(bs) % 16) + 1]>>
         \o Encode(Tail(bs))

\* the encodings of the model's identifiers, computed once
EncodeTable == [bs \in Domains \cup Ids \cup Generations |-> Encode(bs)]

\* encoding/hex EncodeToString
EncodeToString(bs) == IF bs \in DOMAIN EncodeTable THEN EncodeTable[bs] ELSE Encode(bs)

\* A hex digit value that knows the decimal digits only.
FromHexCharDecimal(c) ==
    IF \E n \in 1..10 : HexDigits[n] = c
    THEN (CHOOSE n \in 1..10 : HexDigits[n] = c) - 1
    ELSE -1

\* encoding/hex fromHexChar: digits, a-f and A-F; -1 for anything else
FromHexChar(c) ==
    IF \E n \in 1..16 : HexDigits[n] = c
    THEN (CHOOSE n \in 1..16 : HexDigits[n] = c) - 1
    ELSE CASE c = "A" -> 10 [] c = "B" -> 11 [] c = "C" -> 12
           [] c = "D" -> 13 [] c = "E" -> 14 [] c = "F" -> 15
           [] OTHER -> -1

\* encoding/hex Decode: the bytes of the leading valid pairs, and whether the
\* whole string decoded (an odd length or a non-hex character is an error)
RECURSIVE Decode(_)
Decode(s) ==
    IF s = <<>> THEN [ok |-> TRUE, bytes |-> <<>>]
    ELSE IF Len(s) = 1 THEN [ok |-> FALSE, bytes |-> <<>>]
    ELSE IF FromHexChar(s[1]) < 0 \/ FromHexChar(s[2]) < 0
         THEN [ok |-> FALSE, bytes |-> <<>>]
    ELSE LET rest == Decode(SubSeq(s, 3, Len(s)))
         IN  [ok |-> rest.ok,
              bytes |-> <<FromHexChar(s[1]) * 16 + FromHexChar(s[2])>> \o rest.bytes]

\* the decodings of the labels the model writes, computed once
DecodeTable == [s \in {Encode(g) : g \in Generations} |-> Decode(s)]

\* encoding/hex DecodeString
DecodeString(s) == IF s \in DOMAIN DecodeTable THEN DecodeTable[s] ELSE Decode(s)

\* copy(x[:], s) into a zeroed [16]byte
Copy16(bs) == [i \in 1..IdLen |-> IF i <= Len(bs) THEN bs[i] ELSE 0]

\* composeCtrdID, as written
Compose(domain, id) == EncodeToString(domain) \o <<"-">> \o EncodeToString(id)

\* the composed IDs of the model's keys, computed once
ComposeTable == [k \in Domains \X Ids |-> Compose(k[1], k[2])]

composeCtrdID(domain, id) ==
    IF <<domain, id>> \in DOMAIN ComposeTable THEN ComposeTable[<<domain, id>>]
    ELSE Compose(domain, id)

CtrdIDs == {composeCtrdID(d, i) : d \in Domains, i \in Ids}

DecDigits == <<"0", "1", "2", "3", "4", "5", "6", "7", "8", "9">>

\* strconv.FormatUint(n, 10)
RECURSIVE FormatUint(_)
FormatUint(n) ==
    IF n < 10 THEN <<DecDigits[n + 1]>>
    ELSE FormatUint(n \div 10) \o <<DecDigits[(n % 10) + 1]>>

\* strconv.ParseUint(s, 10, 32)
RECURSIVE ParseDigits(_, _)
ParseDigits(s, acc) ==
    IF s = <<>> THEN [ok |-> TRUE, val |-> acc]
    ELSE IF ~ \E n \in 1..10 : DecDigits[n] = Head(s) THEN [ok |-> FALSE, val |-> 0]
    ELSE ParseDigits(Tail(s), acc * 10 + (CHOOSE n \in 1..10 : DecDigits[n] = Head(s)) - 1)

\* (the uids of the model have at most 9 digits; a longer string is out of the
\* model's range and is treated as out of the range of a uint32)
ParseUint(s) ==
    IF s = <<>> \/ Len(s) > 9 THEN [ok |-> FALSE, val |-> 0]
    ELSE ParseDigits(s, 0)

containerdGenerationLabel == "CNE-GEN"
containerdUIDLabel == "CNE-UID"

\* labels[key] of a Go map: the empty string when the key is missing
LabelValue(labels, key) == IF key \in DOMAIN labels THEN labels[key] ELSE <<>>

(* ----------------------------------------------------------------- errors *)

Ok == "ok"
\* errdefs, the taxonomy the callers see
ErrNotFound == "NotFound"
ErrAlreadyExists == "AlreadyExists"
ErrInvalidArgument == "InvalidArgument"
\* runtime.Errorf: the generic runtime error wrapping the backend's message
ErrRuntime == "RuntimeError"
\* errors of the containerd client, as the daemon returns them
CtrdNotFound == "ctrd.NotFound"
CtrdAlreadyExists == "ctrd.AlreadyExists"
CtrdFailedPrecondition == "ctrd.FailedPrecondition"
CtrdUnavailable == "ctrd.Unavailable"
\* a method call on the nil ctrdContainer of a handle, a slice out of range
Panic == "panic"

IsNotFound(err) == err = CtrdNotFound

\* strings.Index for a one-character separator: the offset of its first
\* occurrence, -1 when there is none
Index(s, sep) ==
    IF \E n \in 1..Len(s) : s[n] = sep
    THEN (CHOOSE n \in 1..Len(s) : s[n] = sep /\ \A m \in 1..(n - 1) : s[m] # sep) - 1
    ELSE -1

\* splitCtrdID: ctrdID[:idx] with idx = -1 is a slice out of range
splitCtrdID(ctrdID) ==
    LET idx == Index(ctrdID, "-")
        d == DecodeString(SubSeq(ctrdID, 1, idx))
        i == DecodeString(SubSeq(ctrdID, idx + 2, Len(ctrdID)))
        failed(err) == [dom |-> Copy16(<<>>), id |-> Copy16(<<>>), err |-> err]
    IN  IF idx < 0 THEN failed(Panic)
        ELSE IF ~d.ok THEN failed(ErrInvalidArgument)
        ELSE IF ~i.ok THEN failed(ErrInvalidArgument)
        ELSE [dom |-> Copy16(d.bytes), id |-> Copy16(i.bytes), err |-> Ok]

(* ------------------------------------------------------ the daemon's state *)

\* A daemon state w is a record:
\*   ctrs    composed ID -> the container objects [labels, spec, image, oid] under
\*           the ID, in a sequence: None or <<the object>>
\*   tasks   composed ID -> None or <<the task [status, mounts]>>
\*   snaps   <<domain, id>> -> the snapshot chain [committed, active]
\*   created the number of container objects created so far (oid of the last one)

SnapKeys == Domains \X Ids

NoSnapshots == [committed |-> 0, active |-> FALSE]

\* the name of the active snapshot of a chain: its position in the chain
ActiveName(chain) == chain.committed + 1

\* client.LoadContainer
CtrdLoadContainer(w, ctrdID, f) ==
    IF f = "LoadContainer" THEN CtrdUnavailable
    ELSE IF w.ctrs[ctrdID] = None THEN CtrdNotFound
    ELSE Ok

\* Container.Labels
CtrdLabels(w, ctrdID, f) ==
    IF f = "Labels" THEN [err |-> CtrdUnavailable, val |-> <<>>]
    ELSE IF w.ctrs[ctrdID] = None THEN [err |-> CtrdNotFound, val |-> <<>>]
    ELSE [err |-> Ok, val |-> w.ctrs[ctrdID][1].labels]

\* Container.SetLabels: the given labels are written over the stored ones
CtrdSetLabels(w, ctrdID, labels, f) ==
    IF f = "SetLabels" THEN [w |-> w, err |-> CtrdUnavailable]
    ELSE IF w.ctrs[ctrdID] = None THEN [w |-> w, err |-> CtrdNotFound]
    ELSE LET old == w.ctrs[ctrdID][1].labels
             new == [k \in DOMAIN old \cup DOMAIN labels |->
                        IF k \in DOMAIN labels THEN labels[k] ELSE old[k]]
         IN  [w |-> [w EXCEPT !.ctrs[ctrdID][1].labels = new], err |-> Ok]

\* Container.Task
CtrdTask(w, ctrdID, f) ==
    IF f = "Task" THEN CtrdUnavailable
    ELSE IF w.tasks[ctrdID] = None THEN CtrdNotFound
    ELSE Ok

\* Container.Delete(WithSnapshotCleanup): refused while the container has a task;
\* the containers are created without a snapshot key, so the cleanup removes nothing
CtrdDelete(w, ctrdID, f) ==
    IF f = "Delete" THEN [w |-> w, err |-> CtrdUnavailable]
    ELSE IF w.tasks[ctrdID] # None THEN [w |-> w, err |-> CtrdFailedPrecondition]
    ELSE IF w.ctrs[ctrdID] = None THEN [w |-> w, err |-> CtrdNotFound]
    ELSE [w |-> [w EXCEPT !.ctrs[ctrdID] = None], err |-> Ok]

\* A NewContainer that does not refuse an ID that is taken.
CtrdNewContainerUnchecked(w, ctrdID, img, spec, labels, f) ==
    IF f = "NewContainer" THEN [w |-> w, err |-> CtrdUnavailable]
    ELSE [w |-> [w EXCEPT !.ctrs[ctrdID] = Append(@, [labels |-> labels, spec |-> spec,
                                                     image |-> img, oid |-> w.created + 1]),
                          !.created = w.created + 1],
          err |-> Ok]

\* client.NewContainer(WithImage, WithSpec, WithRuntime, WithContainerLabels)
CtrdNewContainer(w, ctrdID, img, spec, labels, f) ==
    IF f = "NewContainer" THEN [w |-> w, err |-> CtrdUnavailable]
    ELSE IF w.ctrs[ctrdID] # None THEN [w |-> w, err |-> CtrdAlreadyExists]
    ELSE [w |-> [w EXCEPT !.ctrs[ctrdID] = <<[labels |-> labels, spec |-> spec,
                                             image |-> img, oid |-> w.created + 1]>>,
                          !.created = w.created + 1],
          err |-> Ok]

\* Container.Update with the marshalled spec
CtrdUpdate(w, ctrdID, spec, f) ==
    IF f = "Update" THEN [w |-> w, err |-> CtrdUnavailable]
    ELSE IF w.ctrs[ctrdID] = None THEN [w |-> w, err |-> CtrdNotFound]
    ELSE [w |-> [w EXCEPT !.ctrs[ctrdID][1].spec = spec], err |-> Ok]

\* Container.NewTask(WithRootFS(mounts)): one task per container
CtrdNewTask(w, ctrdID, mounts, f) ==
    IF f = "NewTask" THEN [w |-> w, err |-> CtrdUnavailable]
    ELSE IF w.ctrs[ctrdID] = None THEN [w |-> w, err |-> CtrdNotFound]
    ELSE IF w.tasks[ctrdID] # None THEN [w |-> w, err |-> CtrdAlreadyExists]
    ELSE [w |-> [w EXCEPT !.tasks[ctrdID] = <<[status |-> "created", mounts |-> mounts]>>],
          err |-> Ok]

(* ------------------------------------------------------ the snapshot store *)

\* getActiveSnapshot(domain, id): the current leaf snapshot of the key, or NotFound
getActiveSnapshot(w, domain, id, f) ==
    IF f = "Snapshotter" THEN [err |-> ErrRuntime, name |-> 0]
    ELSE IF ~ w.snaps[<<domain, id>>].active THEN [err |-> ErrNotFound, name |-> 0]
    ELSE [err |-> Ok, name |-> ActiveName(w.snaps[<<domain, id>>])]

\* getActiveSnapMounts(domain, id): the mounts of the active snapshot
getActiveSnapMounts(w, domain, id, f) == getActiveSnapshot(w, domain, id, f)

\* createActiveSnapshot: the first snapshot, from the image's root filesystem;
\* fails if one already exists for the key
createActiveSnapshot(w, domain, id, f) ==
    IF f = "Snapshotter" THEN [w |-> w, err |-> ErrRuntime]
    ELSE IF w.snaps[<<domain, id>>] # NoSnapshots THEN [w |-> w, err |-> ErrAlreadyExists]
    ELSE [w |-> [w EXCEPT !.snaps[<<domain, id>>].active = TRUE], err |-> Ok]

\* updateSnapshot: amend rewrites the active snapshot in place; otherwise the
\* active snapshot is committed and a new child becomes the active one
updateSnapshot(w, domain, id, amend, f) ==
    IF f = "Snapshotter" THEN [w |-> w, err |-> ErrRuntime]
    ELSE IF ~ w.snaps[<<domain, id>>].active THEN [w |-> w, err |-> ErrNotFound]
    ELSE IF amend THEN [w |-> w, err |-> Ok]
    ELSE [w |-> [w EXCEPT !.snaps[<<domain, id>>].committed = @ + 1], err |-> Ok]

\* deleteContainerSnapshots: removes the whole snapshot chain of the key
deleteContainerSnapshots(w, domain, id, f) ==
    IF f = "Snapshotter" THEN [w |-> w, err |-> ErrRuntime]
    ELSE [w |-> [w EXCEPT !.snaps[<<domain, id>>] = NoSnapshots], err |-> Ok]

(* ------------------------------------------------------------ the handlers *)

Images == {"img"}

\* image.Config(): the decoded OCI config of the image
ImageConfig(img) == [Entrypoint |-> <<"/entry">>, Cmd |-> <<"run">>, WorkingDir |-> ""]

\* runspecs.Spec: Process is nil or <<[Args, Cwd]>>; Linux is nil (FALSE) or set
SpecInputs == {[Process |-> None, Linux |-> TRUE]}

\* getGeneration: the generation label, hex-decoded and copied into a [16]byte
getGeneration(w, ctrdID, f) ==
    LET l == CtrdLabels(w, ctrdID, f)
        d == DecodeString(LabelValue(l.val, containerdGenerationLabel))
    IN  IF l.err # Ok THEN [err |-> ErrRuntime, gen |-> Copy16(<<>>)]
        ELSE IF ~ d.ok THEN [err |-> ErrRuntime, gen |-> Copy16(<<>>)]
        ELSE [err |-> Ok, gen |-> Copy16(d.bytes)]

\* getUID: the uid label, parsed as a decimal uint32
getUID(w, ctrdID, f) ==
    LET l == CtrdLabels(w, ctrdID, f)
        u == ParseUint(LabelValue(l.val, containerdUIDLabel))
    IN  IF l.err # Ok THEN [err |-> ErrRuntime, uid |-> 0]
        ELSE IF ~ u.ok THEN [err |-> ErrRuntime, uid |-> 0]
        ELSE [err |-> Ok, uid |-> u.val]

\* newContainer: a handle, nothing is created
newContainer(ctrdCtr, domain, id, generation, uid, img, spec) ==
    [domain |-> domain, id |-> id, generation |-> generation, uid |-> uid,
     spec |-> spec, image |-> img, ctrdContainer |-> ctrdCtr]

\* containerdRuntime.NewContainer: a handle with a nil ctrdContainer (and uid 0)
NewContainer(domain, id, generation, img, spec) ==
    newContainer(None, domain, id, generation, 0, img, spec)

\* deleteCtrdTask: status, (wait, kill, exit,) delete; a missing task is no error
\* A deleteCtrdTask that leaves the task alone and reports success.
deleteCtrdTaskSkipped(w, ctrdID, f) == [w |-> w, err |-> Ok]

deleteCtrdTask(w, ctrdID, f) ==
    LET t == CtrdTask(w, ctrdID, f)
        stopped == [w EXCEPT !.tasks[ctrdID][1].status = "stopped"]
    IN  IF t # Ok /\ IsNotFound(t) THEN [w |-> w, err |-> Ok]
        ELSE IF t # Ok THEN [w |-> w, err |-> ErrRuntime]
        ELSE IF f = "Status" THEN [w |-> w, err |-> ErrRuntime]
        ELSE IF w.tasks[ctrdID][1].status # "stopped" /\ f = "Wait"
             THEN [w |-> w, err |-> ErrRuntime]
        ELSE IF w.tasks[ctrdID][1].status # "stopped" /\ f = "Kill"
             THEN [w |-> w, err |-> ErrRuntime]
        ELSE IF f = "TaskDelete" THEN [w |-> stopped, err |-> ErrRuntime]
        ELSE [w |-> [w EXCEPT !.tasks[ctrdID] = None], err |-> Ok]

\* A deleteCtrdContainer that deletes the task and keeps the container object.
deleteCtrdContainerTaskOnly(w, ctrdID, domain, id, purge, f) ==
    [w |-> deleteCtrdTask(w, ctrdID, f).w, err |-> Ok]

\* deleteCtrdContainer: the task, then the container object, then (purge) the
\* snapshots, whose error is ignored
deleteCtrdContainer(w, ctrdID, domain, id, purge, f) ==
    LET t == deleteCtrdTask(w, ctrdID, f)
        d == CtrdDelete(t.w, ctrdID, f)
    IN  IF t.err # Ok /\ t.err # ErrNotFound THEN [w |-> t.w, err |-> t.err]
        ELSE IF d.err # Ok THEN [w |-> d.w, err |-> d.err]
        ELSE IF purge
             THEN [w |-> deleteContainerSnapshots(d.w, domain, id, f).w, err |-> Ok]
        ELSE [w |-> d.w, err |-> Ok]

\* deleteContainer: by key; NotFound when there is no container
deleteContainer(w, domain, id, purge, f) ==
    LET ctrdID == composeCtrdID(domain, id)
        l == CtrdLoadContainer(w, ctrdID, f)
    IN  IF l # Ok /\ IsNotFound(l) THEN [w |-> w, err |-> ErrNotFound]
        ELSE IF l # Ok THEN [w |-> w, err |-> ErrRuntime]
        ELSE deleteCtrdContainer(w, ctrdID, domain, id, purge, f)

\* A getContainer that does not ask for the active snapshot.
getContainerUnchecked(w, domain, id, generation, f) ==
    LET ctrdID == composeCtrdID(domain, id)
        l == CtrdLoadContainer(w, ctrdID, f)
        g == getGeneration(w, ctrdID, f)
        u == getUID(w, ctrdID, f)
        ctr0 == newContainer(None, domain, id, generation, 0, "", [Process |-> None, Linux |-> FALSE])
        fail(err) == [w |-> w, err |-> err, ctr |-> ctr0]
    IN  IF l # Ok /\ IsNotFound(l) THEN fail(ErrNotFound)
        ELSE IF l # Ok THEN fail(ErrRuntime)
        ELSE IF g.err # Ok THEN fail(g.err)
        ELSE IF g.gen # generation THEN fail(ErrNotFound)
        ELSE IF u.err # Ok THEN fail(u.err)
        ELSE IF f \in {"Snapshotter", "Image", "Spec"} THEN fail(ErrRuntime)
        ELSE [w |-> w, err |-> Ok,
              ctr |-> newContainer(ctrdID, domain, id, generation, u.uid,
                                   w.ctrs[ctrdID][1].image, w.ctrs[ctrdID][1].spec)]

\* A getContainer that deletes a container of another generation.
getContainerEager(w, domain, id, generation, f) ==
    LET ctrdID == composeCtrdID(domain, id)
        l == CtrdLoadContainer(w, ctrdID, f)
        ctr0 == newContainer(None, domain, id, generation, 0, "", [Process |-> None, Linux |-> FALSE])
    IN  IF l # Ok THEN [w |-> w, err |-> ErrNotFound, ctr |-> ctr0]
        ELSE [w |-> deleteCtrdContainer(w, ctrdID, domain, id, FALSE, f).w,
              err |-> ErrNotFound, ctr |-> ctr0]

\* A getContainer that does not compare the generation.
getContainerAnyGeneration(w, domain, id, generation, f) ==
    LET ctrdID == composeCtrdID(domain, id)
        l == CtrdLoadContainer(w, ctrdID, f)
        u == getUID(w, ctrdID, f)
        s == getActiveSnapshot(w, domain, id, f)
        ctr0 == newContainer(None, domain, id, generation, 0, "", [Process |-> None, Linux |-> FALSE])
        fail(err) == [w |-> w, err |-> err, ctr |-> ctr0]
    IN  IF l # Ok /\ IsNotFound(l) THEN fail(ErrNotFound)
        ELSE IF l # Ok THEN fail(ErrRuntime)
        ELSE IF u.err # Ok THEN fail(u.err)
        ELSE IF s.err = ErrNotFound
             THEN [w |-> deleteCtrdContainer(w, ctrdID, domain, id, FALSE, f).w,
                   err |-> ErrNotFound, ctr |-> ctr0]
        ELSE IF s.err # Ok THEN fail(s.err)
        ELSE IF f \in {"Image", "Spec"} THEN fail(ErrRuntime)
        ELSE [w |-> w, err |-> Ok,
              ctr |-> newContainer(ctrdID, domain, id, generation, u.uid,
                                   w.ctrs[ctrdID][1].image, w.ctrs[ctrdID][1].spec)]

\* getContainer: load, compare the generation, require an active snapshot
getContainer(w, domain, id, generation, f) ==
    LET ctrdID == composeCtrdID(domain, id)
        l == CtrdLoadContainer(w, ctrdID, f)
        g == getGeneration(w, ctrdID, f)
        u == getUID(w, ctrdID, f)
        s == getActiveSnapshot(w, domain, id, f)
        ctr0 == newContainer(None, domain, id, generation, 0, "", [Process |-> None, Linux |-> FALSE])
        fail(err) == [w |-> w, err |-> err, ctr |-> ctr0]
    IN  IF l # Ok /\ IsNotFound(l) THEN fail(ErrNotFound)
        ELSE IF l # Ok THEN fail(ErrRuntime)
        ELSE IF g.err # Ok THEN fail(g.err)
        ELSE IF g.gen # generation THEN fail(ErrNotFound)
        ELSE IF u.err # Ok THEN fail(u.err)
        ELSE IF s.err = ErrNotFound
             THEN [w |-> deleteCtrdContainer(w, ctrdID, domain, id, FALSE, f).w,
                   err |-> ErrNotFound, ctr |-> ctr0]
        ELSE IF s.err # Ok THEN fail(s.err)
        ELSE IF f = "Image" THEN fail(ErrRuntime)
        ELSE IF f = "Spec" THEN fail(ErrRuntime)
        ELSE [w |-> w, err |-> Ok,
              ctr |-> newContainer(ctrdID, domain, id, generation, u.uid,
                                   w.ctrs[ctrdID][1].image, w.ctrs[ctrdID][1].spec)]

\* Create, lines 615-632: the spec completed from the image's config
createSpec(spec, config) ==
    LET process == IF spec.Process = None THEN <<[Args |-> <<>>, Cwd |-> ""]>>
                   ELSE spec.Process
    IN  IF spec.Linux
        THEN [spec EXCEPT !.Process =
                 <<[Args |-> config.Entrypoint \o config.Cmd,
                    Cwd |-> IF config.WorkingDir = "" THEN "/" ELSE config.WorkingDir]>>]
        ELSE [spec EXCEPT !.Process = process]

\* container.Create
Create(w, ctr, f) ==
    LET ctrdID == composeCtrdID(ctr.domain, ctr.id)
        gen == EncodeToString(ctr.generation)
        l == CtrdLoadContainer(w, ctrdID, f)
        loaded == [ctr EXCEPT !.ctrdContainer = ctrdID]
        lb == CtrdLabels(w, ctrdID, f)
        d == deleteCtrdContainer(w, ctrdID, ctr.domain, ctr.id, FALSE, f)
        labels == (containerdGenerationLabel :> gen)
                  @@ (containerdUIDLabel :> FormatUint(ctr.uid))
        new(w1, c1) ==
            LET n == CtrdNewContainer(w1, ctrdID, c1.image,
                                      createSpec(c1.spec, ImageConfig(c1.image)),
                                      labels, f)
            IN  IF f = "Config" THEN [w |-> w1, ctr |-> c1, err |-> ErrRuntime]
                ELSE IF n.err # Ok THEN [w |-> n.w, ctr |-> c1, err |-> ErrRuntime]
                ELSE [w |-> n.w, ctr |-> [c1 EXCEPT !.ctrdContainer = ctrdID], err |-> Ok]
    IN  IF l # Ok /\ ~ IsNotFound(l) THEN [w |-> w, ctr |-> ctr, err |-> l]
        ELSE IF l # Ok THEN new(w, ctr)
        ELSE IF lb.err # Ok THEN [w |-> w, ctr |-> loaded, err |-> lb.err]
        ELSE IF LabelValue(lb.val, containerdGenerationLabel) = gen
             THEN [w |-> w, ctr |-> loaded, err |-> ErrAlreadyExists]
        ELSE IF d.err # Ok THEN [w |-> d.w, ctr |-> loaded, err |-> d.err]
        ELSE new(d.w, loaded)

\* UpdateSpec, lines 658-676: the new spec completed from the image's config
updateSpec(newSpec, config) ==
    LET process == IF newSpec.Process = None THEN <<[Args |-> <<>>, Cwd |-> ""]>>
                   ELSE newSpec.Process
    IN  IF newSpec.Linux
        THEN [newSpec EXCEPT !.Process =
                 <<[Args |-> config.Entrypoint \o config.Cmd,
                    Cwd |-> IF config.WorkingDir = "" THEN "/" ELSE config.WorkingDir]>>]
        ELSE [newSpec EXCEPT !.Process = process]

\* container.UpdateSpec
UpdateSpec(w, ctr, newSpec, f) ==
    LET started == [ctr EXCEPT !.spec = [newSpec EXCEPT !.Process =
                        IF newSpec.Process = None THEN <<[Args |-> <<>>, Cwd |-> ""]>>
                        ELSE newSpec.Process]]
        completed == [ctr EXCEPT !.spec = updateSpec(newSpec, ImageConfig(ctr.image))]
        u == CtrdUpdate(w, ctr.ctrdContainer, completed.spec, f)
    IN  IF f = "Config" THEN [w |-> w, ctr |-> started, err |-> ErrRuntime]
        ELSE IF ctr.ctrdContainer = None THEN [w |-> w, ctr |-> ctr, err |-> Panic]
        ELSE IF u.err # Ok THEN [w |-> u.w, ctr |-> completed, err |-> ErrRuntime]
        ELSE [w |-> u.w, ctr |-> completed, err |-> Ok]

\* A Commit that reads the labels and writes none.
CommitUnwritten(w, ctr, gen, f) ==
    LET lb == CtrdLabels(w, ctr.ctrdContainer, f)
    IN  IF ctr.ctrdContainer = None THEN [w |-> w, ctr |-> ctr, err |-> Panic]
        ELSE [w |-> w, ctr |-> ctr, err |-> lb.err]

\* A Commit that writes the generation under the uid label.
CommitWrongLabel(w, ctr, gen, f) ==
    LET lb == CtrdLabels(w, ctr.ctrdContainer, f)
        labels == [k \in DOMAIN lb.val \cup {containerdUIDLabel} |->
                      IF k = containerdUIDLabel THEN EncodeToString(gen)
                      ELSE lb.val[k]]
        s == CtrdSetLabels(w, ctr.ctrdContainer, labels, f)
    IN  IF ctr.ctrdContainer = None THEN [w |-> w, ctr |-> ctr, err |-> Panic]
        ELSE IF lb.err # Ok THEN [w |-> w, ctr |-> ctr, err |-> lb.err]
        ELSE [w |-> s.w, ctr |-> ctr, err |-> s.err]

\* container.Commit: the generation label is set to the hex of gen
Commit(w, ctr, gen, f) ==
    LET lb == CtrdLabels(w, ctr.ctrdContainer, f)
        labels == [k \in DOMAIN lb.val \cup {containerdGenerationLabel} |->
                      IF k = containerdGenerationLabel THEN EncodeToString(gen)
                      ELSE lb.val[k]]
        s == CtrdSetLabels(w, ctr.ctrdContainer, labels, f)
    IN  IF ctr.ctrdContainer = None THEN [w |-> w, ctr |-> ctr, err |-> Panic]
        ELSE IF lb.err # Ok THEN [w |-> w, ctr |-> ctr, err |-> lb.err]
        ELSE IF s.err # Ok THEN [w |-> s.w, ctr |-> ctr, err |-> s.err]
        ELSE [w |-> s.w, ctr |-> ctr, err |-> Ok]

\* container.SetRootFs
SetRootFs(w, ctr, f) ==
    LET c == createActiveSnapshot(w, ctr.domain, ctr.id, f)
    IN  [w |-> c.w, ctr |-> ctr, err |-> c.err]

\* A Snapshot that advances the snapshot and keeps the task.
SnapshotKeepingTask(w, ctr, f) ==
    LET u == updateSnapshot(w, ctr.domain, ctr.id, FALSE, f)
    IN  IF ctr.ctrdContainer = None THEN [w |-> w, ctr |-> ctr, err |-> Panic]
        ELSE [w |-> u.w, ctr |-> ctr, err |-> u.err]

\* container.Snapshot: the task is deleted before the snapshot advances
Snapshot(w, ctr, f) ==
    LET t == deleteCtrdTask(w, ctr.ctrdContainer, f)
        u == updateSnapshot(t.w, ctr.domain, ctr.id, FALSE, f)
    IN  IF ctr.ctrdContainer = None THEN [w |-> w, ctr |-> ctr, err |-> Panic]
        ELSE IF t.err # Ok /\ t.err # ErrNotFound THEN [w |-> t.w, ctr |-> ctr, err |-> t.err]
        ELSE [w |-> u.w, ctr |-> ctr, err |-> u.err]

\* container.Amend
Amend(w, ctr, f) ==
    LET u == updateSnapshot(w, ctr.domain, ctr.id, TRUE, f)
    IN  [w |-> u.w, ctr |-> ctr, err |-> u.err]

\* A createTask that leaves the container when the task cannot be created.
createTaskKeeping(w, ctr, f) ==
    LET m == getActiveSnapMounts(w, ctr.domain, ctr.id, f)
        t == CtrdNewTask(w, ctr.ctrdContainer, m.name, f)
    IN  IF m.err # Ok THEN [w |-> w, ctr |-> ctr, err |-> m.err]
        ELSE IF t.err # Ok
             THEN [w |-> t.w, ctr |-> [ctr EXCEPT !.ctrdContainer = None], err |-> ErrRuntime]
        ELSE [w |-> t.w, ctr |-> ctr, err |-> Ok]

\* createTask: a task on the mounts of the active snapshot; the container is
\* deleted when the task cannot be created
createTask(w, ctr, f) ==
    LET m == getActiveSnapMounts(w, ctr.domain, ctr.id, f)
        t == CtrdNewTask(w, ctr.ctrdContainer, m.name, f)
        d == deleteCtrdContainer(t.w, ctr.ctrdContainer, ctr.domain, ctr.id, FALSE, f)
    IN  IF m.err # Ok THEN [w |-> w, ctr |-> ctr, err |-> m.err]
        ELSE IF t.err # Ok
             THEN [w |-> d.w, ctr |-> [ctr EXCEPT !.ctrdContainer = None], err |-> ErrRuntime]
        ELSE [w |-> t.w, ctr |-> ctr, err |-> Ok]

\* the outcomes of starting the process
StartOutcomes == {"started", "notfound", "failed"}

\* An Exec that makes a task of its own whatever the container has.
ExecOwnTask(w, ctr, start, f) ==
    LET d == IF ctr.ctrdContainer = None THEN [w |-> w, err |-> Ok]
             ELSE deleteCtrdTask(w, ctr.ctrdContainer, f)
        c == createTask(d.w, ctr, f)
        r == [w |-> c.w, ctr |-> c.ctr, made |-> (c.err = Ok)]
    IN  IF ctr.ctrdContainer = None
        THEN [w |-> w, ctr |-> ctr, err |-> Panic, made |-> FALSE]
        ELSE IF c.err # Ok THEN [err |-> ErrRuntime] @@ r
        ELSE [err |-> Ok] @@ r

\* container.Exec; made tells whether the call created a task
Exec(w, ctr, start, f) ==
    LET t == CtrdTask(w, ctr.ctrdContainer, f)
        n == t # Ok /\ IsNotFound(t)
        c == IF n THEN createTask(w, ctr, f)
             ELSE [w |-> w, ctr |-> ctr, err |-> t]
        r == [w |-> c.w, ctr |-> c.ctr, made |-> (n /\ c.err = Ok)]
    IN  IF ctr.ctrdContainer = None
        THEN [w |-> w, ctr |-> ctr, err |-> Panic, made |-> FALSE]
        ELSE IF c.err # Ok THEN [err |-> ErrRuntime] @@ r
        ELSE IF f = "Exec" \/ c.w.tasks[ctr.ctrdContainer][1].status = "stopped"
             THEN [err |-> ErrRuntime] @@ r
        ELSE IF start = "failed" THEN [err |-> ErrNotFound] @@ r
        ELSE IF start = "notfound" THEN [err |-> ErrRuntime] @@ r
        ELSE [err |-> Ok] @@ r

\* container.Delete
Delete(w, ctr, f) ==
    IF ctr.ctrdContainer = None THEN [w |-> w, ctr |-> ctr, err |-> Panic]
    ELSE LET d == deleteCtrdContainer(w, ctr.ctrdContainer, ctr.domain, ctr.id, FALSE, f)
         IN  [w |-> d.w, ctr |-> ctr, err |-> d.err]

\* container.Purge
Purge(w, ctr, f) ==
    IF ctr.ctrdContainer = None THEN [w |-> w, ctr |-> ctr, err |-> Panic]
    ELSE LET d == deleteCtrdContainer(w, ctr.ctrdContainer, ctr.domain, ctr.id, TRUE, f)
         IN  [w |-> d.w, ctr |-> ctr, err |-> d.err]

(* --------------------------------------------------------------- the state *)

VARIABLES
    containers,  \* the daemon's container objects, by composed ID
    tasks,       \* the daemon's tasks, by composed ID
    snapshots,   \* the snapshot chains, by <<domain, id>>
    created,     \* container objects created so far
    ctr,         \* the caller's container handle, None before the first one
    last,        \* the last call: its name, arguments and result, whether a backend
                 \* call of it was made to fail, and what its key held before it
    done,        \* Scenario only: the calls made so far, each with its result
    procs,       \* Concurrent only: each invocation's call, its position in it
                 \* and the result of its last call
    puller,      \* Pull only: the PullImage call, the signal disposition, the
                 \* reporter's context and wait group
    store,       \* Pull only: the mutex, the descriptors seen, the backend's content
    handlers,    \* Pull only: the image handler's running invocations
    reporter,    \* Pull only: the progress reporter
    channel,     \* Pull only: the progress channel
    consumer,    \* Pull only: showImageProgress
    codec,       \* Codec only: the ID last split, what it was composed of, if it
                 \* was composed, and what the split returned
    runtimes,    \* Registry only: the registered runtime types, by name
    applied      \* the call last made in Registry, Listing or Specs: its name,
                 \* its arguments and what it returned

pulling == <<puller, store, handlers, reporter, channel, consumer>>

\* what the container calls leave alone
aside == <<pulling, codec, runtimes, applied>>

vars == <<containers, tasks, snapshots, created, ctr, last, done, procs, aside>>

World == [ctrs |-> containers, tasks |-> tasks, snaps |-> snapshots, created |-> created]

SetWorld(w) ==
    /\ containers' = w.ctrs
    /\ tasks' = w.tasks
    /\ snapshots' = w.snaps
    /\ created' = w.created

\* what the key of a call holds when the call begins: the identity of its
\* container object (0: none) and whether it has a task
Before(domain, id) ==
    LET c == composeCtrdID(domain, id)
    IN  [oid |-> IF containers[c] = None THEN 0 ELSE containers[c][1].oid,
         task |-> tasks[c] # None]

Returned(op, domain, id, gen, f, err, oid) ==
    last' = [op |-> op, domain |-> domain, id |-> id, gen |-> gen,
             faulted |-> (f # "none"), err |-> err, oid |-> oid,
             pre |-> Before(domain, id), start |-> "", made |-> FALSE, fault |-> ""]

\* no call has returned since the daemon's state last changed out of band
NoCall == [op |-> "none", domain |-> None, id |-> None, gen |-> None,
           faulted |-> FALSE, err |-> Ok, oid |-> 0, pre |-> [oid |-> 0, task |-> FALSE],
           start |-> "", made |-> FALSE, fault |-> ""]

InitWorld ==
    /\ containers = [c \in CtrdIDs |-> None]
    /\ tasks = [c \in CtrdIDs |-> None]
    /\ snapshots = [k \in SnapKeys |-> NoSnapshots]
    /\ created = 0
    /\ ctr = None
    /\ last = NoCall

\* the result of a handler called on the handle; oid is the object the key
\* holds when the call returns (0: none)
Apply(op, gen, f, r) ==
    /\ SetWorld(r.w)
    /\ ctr' = <<r.ctr>>
    /\ Returned(op, ctr[1].domain, ctr[1].id, gen, f, r.err,
                LET c == composeCtrdID(ctr[1].domain, ctr[1].id)
                IN  IF r.w.ctrs[c] = None THEN 0 ELSE r.w.ctrs[c][1].oid)

DoNewContainer(d, i, g, img, spec) ==
    /\ ctr' = <<NewContainer(d, i, g, img, spec)>>
    /\ Returned("NewContainer", d, i, g, "none", Ok, 0)
    /\ UNCHANGED <<containers, tasks, snapshots, created>>

DoGet(d, i, g, f) ==
    \E r \in {getContainer(World, d, i, g, f)} :
        /\ SetWorld(r.w)
        /\ ctr' = IF r.err = Ok THEN <<r.ctr>> ELSE ctr
        /\ Returned("Get", d, i, g, f, r.err,
                    IF r.err = Ok THEN containers[composeCtrdID(d, i)][1].oid ELSE 0)

DoCreate(f) ==
    /\ ctr # None
    /\ created < MaxCreates
    /\ \E r \in {Create(World, ctr[1], f)} : Apply("Create", ctr[1].generation, f, r)

DoSetRootFs(f) ==
    /\ ctr # None
    /\ \E r \in {SetRootFs(World, ctr[1], f)} : Apply("SetRootFs", None, f, r)

DoUpdateSpec(newSpec, f) ==
    /\ ctr # None
    /\ \E r \in {UpdateSpec(World, ctr[1], newSpec, f)} : Apply("UpdateSpec", None, f, r)

DoCommit(g, f) ==
    /\ ctr # None
    /\ \E r \in {Commit(World, ctr[1], g, f)} : Apply("Commit", g, f, r)

DoSnapshot(f) ==
    /\ ctr # None
    /\ snapshots[<<ctr[1].domain, ctr[1].id>>].committed < MaxLayers
    /\ \E r \in {Snapshot(World, ctr[1], f)} : Apply("Snapshot", None, f, r)

DoAmend(f) ==
    /\ ctr # None
    /\ \E r \in {Amend(World, ctr[1], f)} : Apply("Amend", None, f, r)

\* last.start is what starting the process gave, had the call come to start it,
\* last.made whether the call created a task, last.fault the backend call of
\* the Exec that was made to fail
DoExec(start, f) ==
    /\ ctr # None
    /\ \E r \in {Exec(World, ctr[1], start, f)} :
           /\ SetWorld(r.w)
           /\ ctr' = <<r.ctr>>
           /\ last' = [op |-> "Exec", domain |-> ctr[1].domain, id |-> ctr[1].id,
                       gen |-> None, faulted |-> (f # "none"), err |-> r.err,
                       oid |-> LET c == composeCtrdID(ctr[1].domain, ctr[1].id)
                               IN  IF r.w.ctrs[c] = None THEN 0 ELSE r.w.ctrs[c][1].oid,
                       pre |-> Before(ctr[1].domain, ctr[1].id), start |-> start,
                       made |-> r.made, fault |-> f]

DoDelete(f) ==
    /\ ctr # None
    /\ \E r \in {Delete(World, ctr[1], f)} : Apply("Delete", None, f, r)

DoPurge(f) ==
    /\ ctr # None
    /\ \E r \in {Purge(World, ctr[1], f)} : Apply("Purge", None, f, r)

DoDeleteContainer(d, i, purge, f) ==
    \E r \in {deleteContainer(World, d, i, purge, f)} :
        /\ SetWorld(r.w)
        /\ Returned(IF purge THEN "purgeContainer" ELSE "deleteContainer",
                    d, i, None, f, r.err, 0)
        /\ UNCHANGED ctr

\* out of band: the active snapshot of a key is removed (an interrupted build,
\* another tool)
DoRemoveActiveSnapshot(k) ==
    /\ snapshots[k].active
    /\ snapshots' = [snapshots EXCEPT ![k].active = FALSE]
    /\ last' = NoCall
    /\ UNCHANGED <<containers, tasks, created, ctr>>

\* out of band: the processes of a task exit and the task stops
DoTaskExit(c) ==
    /\ tasks[c] # None
    /\ tasks[c][1].status # "stopped"
    /\ tasks' = [tasks EXCEPT ![c][1].status = "stopped"]
    /\ last' = NoCall
    /\ UNCHANGED <<containers, snapshots, created, ctr>>

(* ------------------------------------------- Spec: any calls, with failures *)

\* the key the clients of Scenario and Concurrent work on
TheDomain == CHOOSE d \in Domains : TRUE
TheId == CHOOSE i \in Ids : TRUE
TheKey == composeCtrdID(TheDomain, TheId)

\* the invocations that run side by side in Concurrent
Procs == {1, 2}

Idle(err) ==
    [op |-> "none", pc |-> "idle", gen |-> None, replaced |-> FALSE, err |-> err,
     calls |-> <<>>]

\* content the backend fetches for an image, and the Docker schema 1 manifest
Digests == {"sha256:a", "sha256:b", "sha256:c"}
Schema1Manifest == "sha256:m"

\* the image handler's invocations that may run side by side
Handlers == {1, 2}

\* before PullImage is called
InitPull ==
    /\ puller = [pc |-> "idle", progress |-> FALSE, err |-> Ok, signals |-> "default",
                 cancelled |-> FALSE, wg |-> 0]
    /\ store = [mutex |-> 0, descs |-> <<>>, events |-> 0,
                content |-> [d \in Digests |-> "none"]]
    /\ handlers = [h \in Handlers |-> [pc |-> "idle", digest |-> "", found |-> FALSE]]
    /\ reporter = [pc |-> "none", batch |-> <<>>, final |-> FALSE, ticks |-> 0]
    /\ channel = [closed |-> 0]
    /\ consumer = [pc |-> "ranging", statRefs |-> <<>>,
                   statCached |-> [d \in Digests |-> ""]]

\* the names runtimes are registered and configured under, and the runtime
\* types (the factories) there are
RuntimeNames == {"containerd", "crio", "none"}
RuntimeTypes == {"ctrdType", "otherType"}

\* no ID has been split
NoSplit == [key |-> <<>>, of |-> None, result |-> None]

Init ==
    /\ InitWorld
    /\ done = <<>>
    /\ procs = [p \in Procs |-> Idle(Ok)]
    /\ InitPull
    /\ codec = NoSplit
    /\ runtimes = [name \in RuntimeNames |-> None]
    /\ applied = [op |-> "none"]

CallNewContainer ==
    /\ \E d \in Domains, i \in Ids, g \in Generations, img \in Images, spec \in SpecInputs :
           DoNewContainer(d, i, g, img, spec)
    /\ UNCHANGED <<done, procs, aside>>

CallGet ==
    /\ \E d \in Domains, i \in Ids, g \in Generations,
          f \in {"none", "LoadContainer", "Labels", "TaskDelete", "Snapshotter", "Image"} :
           DoGet(d, i, g, f)
    /\ UNCHANGED <<done, procs, aside>>

CallCreate ==
    /\ \E f \in {"none", "LoadContainer", "Labels", "TaskDelete", "Delete", "Config",
                 "NewContainer"} : DoCreate(f)
    /\ UNCHANGED <<done, procs, aside>>

CallSetRootFs ==
    /\ \E f \in {"none", "Snapshotter"} : DoSetRootFs(f)
    /\ UNCHANGED <<done, procs, aside>>

CallUpdateSpec ==
    /\ \E newSpec \in SpecInputs, f \in {"none", "Config", "Update"} :
           DoUpdateSpec(newSpec, f)
    /\ UNCHANGED <<done, procs, aside>>

CallCommit ==
    /\ \E g \in Generations, f \in {"none", "Labels", "SetLabels"} : DoCommit(g, f)
    /\ UNCHANGED <<done, procs, aside>>

CallSnapshot ==
    /\ \E f \in {"none", "Task", "TaskDelete", "Snapshotter"} : DoSnapshot(f)
    /\ UNCHANGED <<done, procs, aside>>

CallAmend ==
    /\ \E f \in {"none", "Snapshotter"} : DoAmend(f)
    /\ UNCHANGED <<done, procs, aside>>

CallExec ==
    /\ \E start \in StartOutcomes, f \in {"none", "Task", "Snapshotter", "NewTask", "Exec"} :
           /\ start = "started" \/ f = "none"
           /\ DoExec(start, f)
    /\ UNCHANGED <<done, procs, aside>>

CallDelete ==
    /\ \E f \in {"none", "Task", "Status", "Wait", "Kill", "TaskDelete", "Delete"} :
           DoDelete(f)
    /\ UNCHANGED <<done, procs, aside>>

CallPurge ==
    /\ \E f \in {"none", "Kill", "TaskDelete", "Delete", "Snapshotter"} : DoPurge(f)
    /\ UNCHANGED <<done, procs, aside>>

CallDeleteContainer ==
    /\ \E d \in Domains, i \in Ids, purge \in BOOLEAN,
          f \in {"none", "LoadContainer", "TaskDelete", "Snapshotter"} :
           DoDeleteContainer(d, i, purge, f)
    /\ UNCHANGED <<done, procs, aside>>

RemoveActiveSnapshot ==
    /\ \E k \in SnapKeys : DoRemoveActiveSnapshot(k)
    /\ UNCHANGED <<done, procs, aside>>

TaskExit ==
    /\ \E c \in CtrdIDs : DoTaskExit(c)
    /\ UNCHANGED <<done, procs, aside>>

Next ==
    \/ CallNewContainer
    \/ CallGet
    \/ CallCreate
    \/ CallSetRootFs
    \/ CallUpdateSpec
    \/ CallCommit
    \/ CallSnapshot
    \/ CallAmend
    \/ CallExec
    \/ CallDelete
    \/ CallPurge
    \/ CallDeleteContainer
    \/ RemoveActiveSnapshot
    \/ TaskExit

Spec == Init /\ [][Next]_vars

(* ------------------------------------------------- properties of Spec *)

\* the generation a container's stored label decodes to
StoredGeneration(cs, c) ==
    Copy16(DecodeString(LabelValue(cs[c][1].labels, containerdGenerationLabel)).bytes)

\* the backend ID of the last call's key
LastKey == composeCtrdID(last.domain, last.id)

\* C1: whenever Get returns a container without error, at that moment a backend
\* container exists under compose(domain, id), its generation label decodes to
\* the requested generation, and the key has an active snapshot; so Get never
\* returns a container that lacks an active snapshot, whatever came before.
C1_GetReturnsValid ==
    (last.op = "Get" /\ last.err = Ok) =>
        /\ containers[LastKey] # None
        /\ containers[LastKey][1].oid = last.oid
        /\ StoredGeneration(containers, LastKey) = last.gen
        /\ snapshots[<<last.domain, last.id>>].active

\* Get has returned the second container object made under a key, on a chain
\* that has a committed layer.
C1_Witness ==
    /\ last.op = "Get"
    /\ last.err = Ok
    /\ last.oid > 1
    /\ snapshots[<<last.domain, last.id>>].committed > 0

\* the step is a Get for a key that holds a container and has no active snapshot
GetWithoutActive ==
    /\ last'.op = "Get"
    /\ containers[composeCtrdID(last'.domain, last'.id)] # None
    /\ ~ snapshots[<<last'.domain, last'.id>>].active

\* the step returned NotFound, left neither a container object nor a task under
\* the Get's key and did not touch the snapshots
TornDown ==
    /\ last'.err = ErrNotFound
    /\ containers'[composeCtrdID(last'.domain, last'.id)] = None
    /\ tasks'[composeCtrdID(last'.domain, last'.id)] = None
    /\ snapshots' = snapshots

\* C2 (as stated): with the container present and its active snapshot gone, the
\* next Get for the key, of whatever generation, returns NotFound and leaves
\* neither container object nor task (the backend calls of the Get succeeding).
C2_AsStated == [][(GetWithoutActive /\ ~ last'.faulted) => TornDown]_vars

\* C2 (amended): with the container present and its active snapshot gone, a Get
\* for the key with the generation the stored label decodes to returns NotFound
\* and leaves neither container object nor task, the snapshots untouched; a Get
\* with another generation returns NotFound and leaves the container where it
\* is. When a backend call of the Get fails, it returns NotFound or a runtime
\* error, the snapshots are untouched, and the container may remain: the error
\* of the teardown is ignored.
C2_SelfHealing ==
    [][GetWithoutActive =>
         IF last'.faulted
         THEN /\ last'.err \in {ErrNotFound, ErrRuntime}
              /\ snapshots' = snapshots
              /\ created' = created
         ELSE IF StoredGeneration(containers, composeCtrdID(last'.domain, last'.id))
                     = last'.gen
              THEN TornDown
         ELSE last'.err = ErrNotFound /\ UNCHANGED <<containers, tasks, snapshots>>]_vars

\* Get has returned NotFound for a key that held a container with a task when
\* it was called and holds none now, on a chain whose active snapshot was removed
\* out of band (it has a committed layer and no active one).
C2_Witness ==
    /\ last.op = "Get"
    /\ last.err = ErrNotFound
    /\ ~ last.faulted
    /\ last.pre.oid > 0
    /\ last.pre.task
    /\ containers[LastKey] = None
    /\ tasks[LastKey] = None
    /\ snapshots[<<last.domain, last.id>>].committed > 0
    /\ ~ snapshots[<<last.domain, last.id>>].active

\* C3: when the stored generation label decodes to g1, Get(domain, id, g2) with
\* g2 # g1 returns NotFound (a backend failure apart) and leaves the container
\* object, its labels, its task and the snapshots as they were.
C3_StaleLeftAlone ==
    [][(/\ last'.op = "Get"
        /\ containers[composeCtrdID(last'.domain, last'.id)] # None
        /\ StoredGeneration(containers, composeCtrdID(last'.domain, last'.id)) # last'.gen)
       => /\ UNCHANGED <<containers, tasks, snapshots>>
          /\ ~ last'.faulted => last'.err = ErrNotFound]_vars

\* Get(g1) has returned NotFound for a container that was created with g1 and
\* whose label a Commit has since set to another generation; the container and
\* its task are still there.
C3_Witness ==
    /\ last.op = "Get"
    /\ last.err = ErrNotFound
    /\ ~ last.faulted
    /\ containers[LastKey] # None
    /\ containers[LastKey][1].oid = last.pre.oid
    /\ tasks[LastKey] # None
    /\ StoredGeneration(containers, LastKey) # last.gen
    /\ ctr # None
    /\ ctr[1].ctrdContainer = LastKey
    /\ ctr[1].generation = last.gen

\* the step is a Create, with no failing backend call, for a key that holds a
\* container
CreateOnExisting ==
    /\ last'.op = "Create"
    /\ ~ last'.faulted
    /\ containers[composeCtrdID(last'.domain, last'.id)] # None

\* C4: Create on a key that holds a container: with the stored label equal to
\* the hex of the new generation it fails with AlreadyExists and changes
\* nothing; with another label the old task and object are deleted and Create
\* succeeds, leaving one new object under the key, labelled with the new
\* generation and without a task.
C4_CreateOnExisting ==
    [][CreateOnExisting =>
         LET c == composeCtrdID(last'.domain, last'.id)
         IN  IF LabelValue(containers[c][1].labels, containerdGenerationLabel)
                    = EncodeToString(last'.gen)
             THEN /\ last'.err = ErrAlreadyExists
                  /\ UNCHANGED <<containers, tasks, snapshots>>
             ELSE /\ last'.err = Ok
                  /\ containers'[c] # None
                  /\ containers'[c][1].oid = created + 1
                  /\ containers'[c][1].oid # containers[c][1].oid
                  /\ containers'[c][1].labels[containerdGenerationLabel]
                         = EncodeToString(last'.gen)
                  /\ tasks'[c] = None
                  /\ created' = created + 1
                  /\ snapshots' = snapshots]_vars

\* Create has succeeded on a key that held a container with a task: the object
\* under the key is a new one and has no task.
C4_Witness ==
    /\ last.op = "Create"
    /\ last.err = Ok
    /\ ~ last.faulted
    /\ last.pre.oid > 0
    /\ last.pre.task
    /\ containers[LastKey] # None
    /\ containers[LastKey][1].oid # last.pre.oid
    /\ tasks[LastKey] = None

\* the step is a successful Commit
Committed == last'.op = "Commit" /\ last'.err = Ok

\* C8: a successful Commit(g) sets the generation label of the handle's
\* container to the hex of g and changes nothing else: not another label, not
\* the spec, the task or the snapshots; and no other step changes the
\* generation label of a container object that is there before and after it.
C8_CommitOnlyGeneration ==
    [][/\ Committed =>
            LET c == composeCtrdID(last'.domain, last'.id)
            IN  /\ containers[c] # None
                /\ containers' = [containers EXCEPT
                       ![c][1].labels[containerdGenerationLabel] = EncodeToString(last'.gen)]
                /\ UNCHANGED <<tasks, snapshots, created>>
       /\ last'.op # "Commit" =>
            \A c \in CtrdIDs :
                (/\ containers[c] # None
                 /\ containers'[c] # None
                 /\ containers'[c][1].oid = containers[c][1].oid)
                => containers'[c][1].labels[containerdGenerationLabel]
                       = containers[c][1].labels[containerdGenerationLabel]]_vars

\* Commit has set the label of a container with a task and a committed layer to
\* a generation other than the one it was created with.
C8_Witness ==
    /\ last.op = "Commit"
    /\ last.err = Ok
    /\ containers[LastKey][1].labels[containerdGenerationLabel] = EncodeToString(last.gen)
    /\ ctr[1].generation # last.gen
    /\ tasks[LastKey] # None
    /\ snapshots[<<last.domain, last.id>>].committed > 0

\* C10 (as stated): a successful Delete removes the task and the container
\* object and leaves the snapshots; a successful Purge removes the task, the
\* container object and the whole snapshot chain of the key.
C10_AsStated ==
    [][/\ (last'.op = "Delete" /\ last'.err = Ok) =>
            /\ containers'[composeCtrdID(last'.domain, last'.id)] = None
            /\ tasks'[composeCtrdID(last'.domain, last'.id)] = None
            /\ snapshots' = snapshots
       /\ (last'.op = "Purge" /\ last'.err = Ok) =>
            /\ containers'[composeCtrdID(last'.domain, last'.id)] = None
            /\ tasks'[composeCtrdID(last'.domain, last'.id)] = None
            /\ snapshots'[<<last'.domain, last'.id>>] = NoSnapshots]_vars

\* C11: an Exec that finds no task creates one, in state created and on the
\* mounts of the active snapshot of its key; an Exec that finds a task creates
\* none and leaves that task in place; a key never has more than one task.
C11_OneTaskReused ==
    /\ \A c \in CtrdIDs : tasks[c] = None \/ Len(tasks[c]) = 1
    /\ (last.op = "Exec" /\ last.made) =>
            /\ ~last.pre.task
            /\ snapshots[<<last.domain, last.id>>].active
            /\ tasks[LastKey]
                   = <<[status |-> "created",
                        mounts |-> ActiveName(snapshots[<<last.domain, last.id>>])]>>
    /\ (last.op = "Exec" /\ last.err = Ok) =>
            /\ tasks[LastKey] # None
            /\ last.made = ~last.pre.task

\* A second Exec has succeeded on the task an earlier Exec created.
C11_Witness ==
    /\ last.op = "Exec"
    /\ last.err = Ok
    /\ last.pre.task
    /\ ~last.made
    /\ tasks[LastKey] # None
    /\ tasks[LastKey][1].mounts = ActiveName(snapshots[<<last.domain, last.id>>])

\* C12 (as stated): when the start of the process fails with the backend's
\* not-found, Exec returns NotFound; when it fails in any other way, Exec
\* returns a runtime error.
C12_AsStated ==
    (/\ last.op = "Exec"
     /\ ~last.faulted
     /\ last.err # Panic
     /\ tasks[LastKey] # None
     /\ tasks[LastKey][1].status # "stopped")
    => /\ last.start = "notfound" => last.err = ErrNotFound
       /\ last.start = "failed" => last.err = ErrRuntime

(* ----------------- Scenario: one client, straight-line programs, no failures *)

\* A program is NewContainer, Create, then at most MaxMiddle further calls on
\* the handle, then at most MaxGets lookups; every call made is recorded.
MaxMiddle == 3
MaxGets == 2

Gets == {n \in DOMAIN done : done[n].op = "Get"}

InMiddle ==
    /\ Len(done) >= 2
    /\ Len(done) < 2 + MaxMiddle
    /\ Gets = {}

Record ==
    /\ done' = Append(done, [op |-> last'.op, gen |-> last'.gen, err |-> last'.err,
                             oid |-> last'.oid])
    /\ UNCHANGED <<procs, aside>>

RunNewContainer ==
    /\ done = <<>> \/ InMiddle
    /\ \E d \in Domains, i \in Ids, g \in Generations, img \in Images, spec \in SpecInputs :
           DoNewContainer(d, i, g, img, spec)
    /\ Record

RunCreate ==
    /\ Len(done) = 1 \/ InMiddle
    /\ DoCreate("none")
    /\ Record

RunSetRootFs == InMiddle /\ DoSetRootFs("none") /\ Record

RunSnapshot == InMiddle /\ DoSnapshot("none") /\ Record

RunAmend == InMiddle /\ DoAmend("none") /\ Record

RunCommit == InMiddle /\ (\E g \in Generations : DoCommit(g, "none")) /\ Record

RunExec == InMiddle /\ DoExec("started", "none") /\ Record

RunDelete == InMiddle /\ DoDelete("none") /\ Record

RunPurge == InMiddle /\ DoPurge("none") /\ Record

RunGet ==
    /\ Len(done) >= 2
    /\ Cardinality(Gets) < MaxGets
    /\ \E g \in Generations : DoGet(ctr[1].domain, ctr[1].id, g, "none")
    /\ Record

ScenarioNext ==
    \/ RunNewContainer
    \/ RunCreate
    \/ RunSetRootFs
    \/ RunSnapshot
    \/ RunAmend
    \/ RunCommit
    \/ RunExec
    \/ RunDelete
    \/ RunPurge
    \/ RunGet

Scenario == Init /\ [][ScenarioNext]_vars

(* --------------------------------------------- properties of Scenario *)

\* call n was op and returned without error
Succeeded(n, op) == done[n].op = op /\ done[n].err = Ok

\* the last call is a Get(g) that directly follows a successful Commit(g), and
\* a Create has succeeded before
GetAfterCommit ==
    /\ Len(done) >= 3
    /\ done[Len(done)].op = "Get"
    /\ Succeeded(Len(done) - 1, "Commit")
    /\ done[Len(done) - 1].gen = done[Len(done)].gen
    /\ \E n \in 1..(Len(done) - 2) : Succeeded(n, "Create")

ScenarioA ==
    /\ Len(done) >= 5
    /\ done[1].op = "NewContainer"
    /\ Succeeded(2, "Create")
    /\ Succeeded(3, "SetRootFs")
    /\ Succeeded(4, "Snapshot")
    /\ Succeeded(5, "Commit")
    /\ done[5].gen # done[1].gen

C9_AsStated ==
    \A n \in DOMAIN done :
        (n > 1 /\ done[n].op = "Delete" /\ done[n - 1].op = "Delete") => done[n].err = Ok

Handle(p) ==
    newContainer(TheKey, TheDomain, TheId,
                 IF procs[p].gen = None THEN Copy16(<<>>) ELSE procs[p].gen, 0,
                 "img", [Process |-> None, Linux |-> TRUE])

At(p, op, pc) == procs[p].op = op /\ procs[p].pc = pc

Goto(p, pc) == procs' = [procs EXCEPT ![p].pc = pc]

Return(p, err) == procs' = [procs EXCEPT ![p] = Idle(err)]

Creating == {p \in Procs : procs[p].op = "Create"}

\* an invocation begins a call
Invoke(p) ==
    /\ procs[p].pc \in {"idle", "crashed"}
    /\ \/ /\ created + Cardinality(Creating) < MaxCreates
          /\ \E g \in Generations :
                 procs' = [procs EXCEPT ![p] = [op |-> "Create", pc |-> "load", gen |-> g,
                                                replaced |-> FALSE, err |-> Ok, calls |-> <<>>]]
       \/ \E g \in Generations :
              procs' = [procs EXCEPT ![p] = [op |-> "Get", pc |-> "load", gen |-> g,
                                             replaced |-> FALSE, err |-> Ok, calls |-> <<>>]]
       \/ \E op \in {"Delete", "Purge"} :
              procs' = [procs EXCEPT ![p] = [op |-> op, pc |-> "deltask", gen |-> None,
                                             replaced |-> FALSE, err |-> Ok, calls |-> <<>>]]
       \/ \E op \in {"SetRootFs", "Exec"} :
              procs' = [procs EXCEPT ![p] = [op |-> op, pc |-> "call", gen |-> None,
                                             replaced |-> FALSE, err |-> Ok, calls |-> <<>>]]
    /\ UNCHANGED <<containers, tasks, snapshots, created, ctr, last, done, aside>>

\* Create, line 595: LoadContainer
CreateLoad(p) ==
    /\ At(p, "Create", "load")
    /\ IF IsNotFound(CtrdLoadContainer(World, TheKey, "none"))
       THEN Goto(p, "new") ELSE Goto(p, "labels")
    /\ UNCHANGED <<containers, tasks, snapshots, created, ctr, last, done, aside>>

\* Create, lines 601-608: Labels, and the generation label compared
CreateLabels(p) ==
    /\ At(p, "Create", "labels")
    /\ LET lb == CtrdLabels(World, TheKey, "none")
       IN  IF lb.err # Ok THEN Return(p, lb.err)
           ELSE IF LabelValue(lb.val, containerdGenerationLabel)
                       = EncodeToString(procs[p].gen)
                THEN Return(p, ErrAlreadyExists)
           ELSE Goto(p, "deltask")
    /\ UNCHANGED <<containers, tasks, snapshots, created, ctr, last, done, aside>>

\* what deleteCtrdTask returns to the handler that called it
TaskFailed(p, err) == Return(p, IF procs[p].op = "Get" THEN ErrNotFound ELSE err)

\* a task call of deleteCtrdTask has been made
Called(p, call, pc) ==
    procs' = [procs EXCEPT ![p].pc = pc, ![p].calls = Append(@, call)]

\* A teardown that goes on to the container object without the task's deletion.
DeleteTaskSkipped(p) ==
    /\ procs[p].pc = "deltask"
    /\ Goto(p, "delctr")
    /\ UNCHANGED <<containers, tasks, snapshots, created, ctr, last, done, aside>>

\* deleteCtrdTask, lines 527-532: the task of the container is looked up
DeleteTask(p) ==
    /\ procs[p].pc = "deltask"
    /\ LET t == CtrdTask(World, TheKey, "none")
       IN  IF t # Ok /\ IsNotFound(t) THEN Goto(p, "delctr")
           ELSE IF t # Ok THEN TaskFailed(p, ErrRuntime)
           ELSE Goto(p, "tstatus")
    /\ UNCHANGED <<containers, tasks, snapshots, created, ctr, last, done, aside>>

\* deleteCtrdTask, lines 534-538: Status; a stopped task goes straight to Delete
TaskStatus(p) ==
    /\ procs[p].pc = "tstatus"
    /\ IF tasks[TheKey] = None THEN TaskFailed(p, ErrRuntime)
       ELSE IF tasks[TheKey][1].status = "stopped" THEN Called(p, "stopped", "tdelete")
       ELSE Called(p, "status", "twait")
    /\ UNCHANGED <<containers, tasks, snapshots, created, ctr, last, done, aside>>

\* deleteCtrdTask, lines 540-543: Wait registers for the exit, or fails
TaskWait(p) ==
    /\ procs[p].pc = "twait"
    /\ \E ok \in BOOLEAN :
           IF ok /\ tasks[TheKey] # None THEN Called(p, "wait", "tkill")
           ELSE TaskFailed(p, ErrRuntime)
    /\ UNCHANGED <<containers, tasks, snapshots, created, ctr, last, done, aside>>

\* A kill that goes on to Delete without awaiting the exit.
TaskKillUnawaited(p) ==
    /\ procs[p].pc = "tkill"
    /\ tasks[TheKey] # None
    /\ tasks' = [tasks EXCEPT ![TheKey][1].status =
                                 IF @ = "stopped" THEN @ ELSE "killed"]
    /\ Called(p, "kill", "tdelete")
    /\ UNCHANGED <<containers, snapshots, created, ctr, last, done, aside>>

\* deleteCtrdTask, lines 544-547: Kill sends SIGKILL, or fails
TaskKill(p) ==
    /\ procs[p].pc = "tkill"
    /\ \E ok \in BOOLEAN :
           IF ok /\ tasks[TheKey] # None
           THEN /\ tasks' = [tasks EXCEPT ![TheKey][1].status =
                                            IF @ = "stopped" THEN @ ELSE "killed"]
                /\ Called(p, "kill", "tawait")
           ELSE /\ TaskFailed(p, ErrRuntime)
                /\ UNCHANGED tasks
    /\ UNCHANGED <<containers, snapshots, created, ctr, last, done, aside>>

\* deleteCtrdTask, line 548: the exit status is received, when the task has
\* exited or is gone, or when the wait itself has broken off
TaskAwait(p) ==
    /\ procs[p].pc = "tawait"
    /\ \E broken \in BOOLEAN :
           IF broken \/ tasks[TheKey] = None THEN TRUE
           ELSE tasks[TheKey][1].status = "stopped"
    /\ Called(p, "exit", "tdelete")
    /\ UNCHANGED <<containers, tasks, snapshots, created, ctr, last, done, aside>>

\* deleteCtrdTask, lines 550-554: Delete; the backend deletes a stopped task
\* only, and that the task is gone already is no error
TaskDelete(p) ==
    /\ procs[p].pc = "tdelete"
    /\ IF tasks[TheKey] = None
       THEN Called(p, "delete", "delctr") /\ UNCHANGED tasks
       ELSE IF tasks[TheKey][1].status # "stopped"
            THEN TaskFailed(p, ErrRuntime) /\ UNCHANGED tasks
       ELSE /\ tasks' = [tasks EXCEPT ![TheKey] = None]
            /\ Called(p, "delete", "delctr")
    /\ UNCHANGED <<containers, snapshots, created, ctr, last, done, aside>>

\* deleteCtrdContainer, line 800: the container object is deleted; Create goes
\* on to make the new one, Purge to delete the snapshots, Get returns NotFound
\* and createTask, called by Exec, its runtime error
DeleteObject(p) ==
    /\ procs[p].pc = "delctr"
    /\ LET d == CtrdDelete(World, TheKey, "none")
       IN  /\ SetWorld(d.w)
           /\ IF procs[p].op = "Get" THEN Return(p, ErrNotFound)
              ELSE IF procs[p].op = "Exec" THEN Return(p, ErrRuntime)
              ELSE IF d.err # Ok THEN Return(p, d.err)
              ELSE IF procs[p].op = "Create"
                   THEN procs' = [procs EXCEPT ![p].pc = "new", ![p].replaced = TRUE]
              ELSE IF procs[p].op = "Purge" THEN Goto(p, "delsnaps")
              ELSE Return(p, Ok)
    /\ UNCHANGED <<ctr, last, done, aside>>

\* deleteCtrdContainer, lines 805-808: purge deletes the snapshots
PurgeSnapshots(p) ==
    /\ At(p, "Purge", "delsnaps")
    /\ SetWorld(deleteContainerSnapshots(World, TheDomain, TheId, "none").w)
    /\ Return(p, Ok)
    /\ UNCHANGED <<ctr, last, done, aside>>

\* Create, lines 634-650: NewContainer
CreateNew(p) ==
    /\ At(p, "Create", "new")
    /\ LET h == Handle(p)
           n == CtrdNewContainer(World, TheKey, h.image,
                                 createSpec(h.spec, ImageConfig(h.image)),
                                 (containerdGenerationLabel :> EncodeToString(h.generation))
                                 @@ (containerdUIDLabel :> FormatUint(h.uid)), "none")
       IN  /\ SetWorld(n.w)
           /\ Return(p, IF n.err # Ok THEN ErrRuntime ELSE Ok)
    /\ UNCHANGED <<ctr, last, done, aside>>

\* getContainer, line 457: LoadContainer
GetLoad(p) ==
    /\ At(p, "Get", "load")
    /\ IF IsNotFound(CtrdLoadContainer(World, TheKey, "none"))
       THEN Return(p, ErrNotFound) ELSE Goto(p, "labels")
    /\ UNCHANGED <<containers, tasks, snapshots, created, ctr, last, done, aside>>

\* getContainer, lines 465-477: the generation and the uid read and compared
GetLabels(p) ==
    /\ At(p, "Get", "labels")
    /\ LET g == getGeneration(World, TheKey, "none")
           u == getUID(World, TheKey, "none")
       IN  IF g.err # Ok THEN Return(p, g.err)
           ELSE IF g.gen # procs[p].gen THEN Return(p, ErrNotFound)
           ELSE IF u.err # Ok THEN Return(p, u.err)
           ELSE Goto(p, "snapshot")
    /\ UNCHANGED <<containers, tasks, snapshots, created, ctr, last, done, aside>>

\* getContainer, lines 479-486: the active snapshot asked for
GetSnapshot(p) ==
    /\ At(p, "Get", "snapshot")
    /\ LET a == getActiveSnapshot(World, TheDomain, TheId, "none")
       IN  IF a.err = ErrNotFound THEN Goto(p, "deltask") ELSE Return(p, a.err)
    /\ UNCHANGED <<containers, tasks, snapshots, created, ctr, last, done, aside>>

\* SetRootFs and Exec, each taken as one step
CallHandler(p) ==
    /\ procs[p].pc = "call"
    /\ LET r == IF procs[p].op = "SetRootFs" THEN SetRootFs(World, Handle(p), "none")
                ELSE Exec(World, Handle(p), "started", "none")
       IN  SetWorld(r.w) /\ Return(p, r.err)
    /\ UNCHANGED <<ctr, last, done, aside>>

\* the invocation dies where it is
Crash(p) ==
    /\ procs[p].pc \notin {"idle", "crashed"}
    /\ Goto(p, "crashed")
    /\ UNCHANGED <<containers, tasks, snapshots, created, ctr, last, done, aside>>

ConcurrentNext ==
    \E p \in Procs :
        \/ Invoke(p)
        \/ CreateLoad(p)
        \/ CreateLabels(p)
        \/ DeleteTask(p)
        \/ TaskStatus(p)
        \/ TaskWait(p)
        \/ TaskKill(p)
        \/ TaskAwait(p)
        \/ TaskDelete(p)
        \/ DeleteObject(p)
        \/ PurgeSnapshots(p)
        \/ CreateNew(p)
        \/ GetLoad(p)
        \/ GetLabels(p)
        \/ GetSnapshot(p)
        \/ CallHandler(p)
        \/ Crash(p)
        \/ TaskExit

Concurrent == Init /\ [][ConcurrentNext]_vars

(* -------------------------------------------- properties of Concurrent *)

\* no step puts another object under a key that holds one
NoSwap ==
    \A c \in CtrdIDs :
        (containers[c] # None /\ containers'[c] # None)
        => containers'[c][1].oid = containers[c][1].oid

\* the step on which a Create has deleted the old object leaves the key ABSENT
DeletedBeforeNew ==
    \A p \in Procs :
        (At(p, "Create", "delctr") /\ procs'[p].pc = "new") => containers'[TheKey] = None

\* a crash changes nothing in the backend
CrashKeeps ==
    \A p \in Procs :
        (procs[p].pc # "crashed" /\ procs'[p].pc = "crashed")
        => UNCHANGED <<containers, tasks, snapshots, created>>

\* C5: under every interleaving of Create, Get, Delete and Purge, with a crash
\* possible before every backend call, a key never holds more than one
\* container object; no step swaps the object under a key, so a replacing
\* Create takes the key from the old object to ABSENT to the new one, and a
\* crash after its delete leaves the key as the delete left it, ABSENT.
C5_OnePerKey ==
    /\ [](\A c \in CtrdIDs : Len(containers[c]) <= 1)
    /\ [][NoSwap /\ DeletedBeforeNew /\ CrashKeeps]_vars

\* A Create has crashed between its delete of the old object and NewContainer,
\* and the key is ABSENT.
C5_Witness ==
    \E p \in Procs :
        /\ procs[p].op = "Create"
        /\ procs[p].pc = "crashed"
        /\ procs[p].replaced
        /\ containers[TheKey] = None
        /\ created > 0

\* the task calls of a deletion, in the order of the code
KillOrder == <<"status", "wait", "kill", "exit", "delete">>

IsPrefix(s, t) == Len(s) <= Len(t) /\ SubSeq(t, 1, Len(s)) = s

\* no step removes a task that is not stopped
RemovedWhenStopped ==
    \A c \in CtrdIDs :
        (tasks[c] # None /\ tasks'[c] = None) => tasks[c][1].status = "stopped"

\* a deletion whose Wait or Kill fails returns an error and leaves the task
FailureKeepsTask ==
    \A p \in Procs :
        (procs[p].pc \in {"twait", "tkill"} /\ procs'[p].pc = "idle")
        => procs'[p].err # Ok /\ tasks' = tasks

\* C14: a task deletion calls Delete either right after Status has shown the
\* task stopped, or after Wait, Kill and the receipt of the exit, in that
\* order; no step removes a task that is not stopped; when Wait or Kill fails
\* the deletion returns an error and the task stays.
C14_KillWaitDelete ==
    /\ [](\A p \in Procs : \/ IsPrefix(procs[p].calls, <<"stopped", "delete">>)
                            \/ IsPrefix(procs[p].calls, KillOrder))
    /\ [][RemovedWhenStopped /\ FailureKeepsTask]_vars

\* A deletion has found a task that was not stopped, has registered for its
\* exit, killed it, received the exit and deleted it.
C14_Witness ==
    \E p \in Procs :
        /\ procs[p].calls = KillOrder
        /\ procs[p].pc = "delctr"
        /\ tasks[TheKey] = None

(* ------------- Pull: PullImage, the image handler, the reporter, the consumer *)

\* handler invocations the backend makes in one pull, and updates the reporter
\* sends before it is cancelled
MaxEvents == 3
MaxTicks == 1

world ==
    <<containers, tasks, snapshots, created, ctr, last, done, procs, codec, runtimes,
      applied>>

\* PullImage, lines 98-131: the wait group is set to one and, with a progress
\* channel, the reporter is started
PullImage(progress) ==
    /\ puller.pc = "idle"
    /\ puller' = [puller EXCEPT !.pc = "ignore", !.progress = progress, !.wg = 1]
    /\ reporter' = IF progress THEN [reporter EXCEPT !.pc = "select"] ELSE reporter
    /\ UNCHANGED <<world, store, handlers, channel, consumer>>

\* PullImage, line 134: signal.Ignore
SignalIgnore ==
    /\ puller.pc = "ignore"
    /\ puller' = [puller EXCEPT !.pc = "pull", !.signals = "ignored"]
    /\ UNCHANGED <<world, store, handlers, reporter, channel, consumer>>

\* the image handler, lines 104-107: the backend calls it for a descriptor; a
\* schema 1 manifest is passed over
HandlerCall(h, digest) ==
    /\ puller.pc = "pull"
    /\ handlers[h].pc = "idle"
    /\ store.events < MaxEvents
    /\ IF digest = Schema1Manifest
       THEN /\ store' = [store EXCEPT !.events = @ + 1]
            /\ UNCHANGED handlers
       ELSE /\ store' = [store EXCEPT !.events = @ + 1,
                                      !.content[digest] = IF @ = "none" THEN "running" ELSE @]
            /\ handlers' = [handlers EXCEPT ![h] = [pc |-> "lock", digest |-> digest,
                                                    found |-> FALSE]]
    /\ UNCHANGED <<world, puller, reporter, channel, consumer>>

\* whether the digest is among the descriptors seen
Found(digest) == \E n \in 1..Len(store.descs) : store.descs[n] = digest

\* A Lock that lets an invocation in while another holds the mutex.
HandlerLockUnguarded(h) ==
    /\ handlers[h].pc = "lock"
    /\ store' = [store EXCEPT !.mutex = h]
    /\ handlers' = [handlers EXCEPT ![h].pc = "append",
                                    ![h].found = Found(handlers[h].digest)]
    /\ UNCHANGED <<world, puller, reporter, channel, consumer>>

\* the image handler, lines 108-115: mutex.Lock, and the digest is looked for
\* among those seen
HandlerLock(h) ==
    /\ handlers[h].pc = "lock"
    /\ store.mutex = 0
    /\ store' = [store EXCEPT !.mutex = h]
    /\ handlers' = [handlers EXCEPT ![h].pc = "append",
                                    ![h].found = Found(handlers[h].digest)]
    /\ UNCHANGED <<world, puller, reporter, channel, consumer>>

\* the image handler, lines 116-121: a digest not found is appended; Unlock
HandlerAppend(h) ==
    /\ handlers[h].pc = "append"
    /\ store' = [store EXCEPT !.mutex = 0,
                              !.descs = IF handlers[h].found THEN @
                                        ELSE Append(@, handlers[h].digest)]
    /\ handlers' = [handlers EXCEPT ![h].pc = "idle"]
    /\ UNCHANGED <<world, puller, reporter, channel, consumer>>

\* PullImage, line 136: client.Pull returns, with the image and all content
\* fetched and unpacked, or with an error and the content as it is
ClientPull(ok) ==
    /\ puller.pc = "pull"
    /\ \A h \in Handlers : handlers[h].pc = "idle"
    /\ puller' = [puller EXCEPT !.pc = "reset", !.err = IF ok THEN Ok ELSE ErrRuntime]
    /\ store' = IF ok THEN [store EXCEPT !.content =
                               [d \in Digests |-> IF @[d] = "running" THEN "done" ELSE @[d]]]
                ELSE store
    /\ UNCHANGED <<world, handlers, reporter, channel, consumer>>

\* A PullImage that leaves the signals as they are.
SignalResetSkipped ==
    /\ puller.pc = "reset"
    /\ puller' = [puller EXCEPT !.pc = IF puller.progress THEN "stop" ELSE "returned"]
    /\ UNCHANGED <<world, store, handlers, reporter, channel, consumer>>

\* PullImage, lines 139-141: signal.Reset; without a progress channel the
\* call returns (146-155)
SignalReset ==
    /\ puller.pc = "reset"
    /\ puller' = [puller EXCEPT !.signals = "default",
                                !.pc = IF puller.progress THEN "stop" ELSE "returned"]
    /\ UNCHANGED <<world, store, handlers, reporter, channel, consumer>>

\* PullImage, line 142: stopProgress cancels the reporter's context
StopProgress ==
    /\ puller.pc = "stop"
    /\ puller' = [puller EXCEPT !.pc = "wait", !.cancelled = TRUE]
    /\ UNCHANGED <<world, store, handlers, reporter, channel, consumer>>

\* A PullImage that returns without waiting for the reporter.
WaitSkipped ==
    /\ puller.pc = "wait"
    /\ puller' = [puller EXCEPT !.pc = "returned"]
    /\ UNCHANGED <<world, store, handlers, reporter, channel, consumer>>

\* PullImage, lines 143-155: wg.Wait, and the call returns
Wait ==
    /\ puller.pc = "wait"
    /\ puller.wg = 0
    /\ puller' = [puller EXCEPT !.pc = "returned"]
    /\ UNCHANGED <<world, store, handlers, reporter, channel, consumer>>

\* the statuses of the descriptors seen, in their order
Statuses ==
    [n \in 1..Len(store.descs) |->
        [Reference |-> store.descs[n], Status |-> store.content[store.descs[n]]]]

\* updateImageProgress: on a tick the reporter reads the descriptors under the
\* mutex and has their statuses to send
ReporterTick ==
    /\ reporter.pc = "select"
    /\ store.mutex = 0
    /\ reporter.final \/ reporter.ticks < MaxTicks
    /\ reporter' = [reporter EXCEPT !.pc = "send", !.batch = Statuses,
                                    !.ticks = IF reporter.final THEN @ ELSE @ + 1]
    /\ UNCHANGED <<world, puller, store, handlers, channel, consumer>>

\* updateImageProgress: the context is cancelled; one more update follows
ReporterCancelled ==
    /\ reporter.pc = "select"
    /\ puller.cancelled
    /\ ~reporter.final
    /\ reporter' = [reporter EXCEPT !.final = TRUE]
    /\ UNCHANGED <<world, puller, store, handlers, channel, consumer>>

\* showImageProgress, lines 253-258: a batch is taken into the list and the map
RECURSIVE Cached(_, _)
Cached(c, statUpdate) ==
    IF statUpdate = <<>> THEN c
    ELSE LET status == Head(statUpdate)
         IN  Cached([c EXCEPT !.statRefs = IF c.statCached[status.Reference] = ""
                                           THEN Append(@, status.Reference) ELSE @,
                              !.statCached[status.Reference] = status.Status],
                    Tail(statUpdate))

\* A reporter that goes on sending after it was cancelled.
ReporterSendForever ==
    /\ reporter.pc = "send"
    /\ consumer.pc = "ranging"
    /\ consumer' = Cached(consumer, reporter.batch)
    /\ reporter' = [reporter EXCEPT !.pc = "select"]
    /\ UNCHANGED <<world, puller, store, handlers, channel>>

\* the reporter's send meets the consumer's receive (common.go line 252); after
\* the update that follows the cancellation the reporter returns
ReporterSend ==
    /\ reporter.pc = "send"
    /\ consumer.pc = "ranging"
    /\ consumer' = Cached(consumer, reporter.batch)
    /\ reporter' = [reporter EXCEPT !.pc = IF reporter.final THEN "close" ELSE "select"]
    /\ UNCHANGED <<world, puller, store, handlers, channel>>

\* PullImage, line 128: the deferred close(progress)
ReporterClose ==
    /\ reporter.pc = "close"
    /\ channel' = [channel EXCEPT !.closed = @ + 1]
    /\ reporter' = [reporter EXCEPT !.pc = "closed"]
    /\ UNCHANGED <<world, puller, store, handlers, consumer>>

\* PullImage, line 127: the deferred wg.Done
ReporterDone ==
    /\ reporter.pc = "closed"
    /\ puller' = [puller EXCEPT !.wg = 0]
    /\ reporter' = [reporter EXCEPT !.pc = "done"]
    /\ UNCHANGED <<world, store, handlers, channel, consumer>>

\* showImageProgress, lines 252 and 288: the range ends on the closed channel
ConsumerEnd ==
    /\ consumer.pc = "ranging"
    /\ channel.closed > 0
    /\ consumer' = [consumer EXCEPT !.pc = "finished"]
    /\ UNCHANGED <<world, puller, store, handlers, reporter, channel>>

PullerNext == SignalIgnore \/ SignalReset \/ StopProgress \/ Wait

HandlerNext(h) == HandlerLock(h) \/ HandlerAppend(h)

ReporterNext ==
    ReporterTick \/ ReporterCancelled \/ ReporterSend \/ ReporterClose \/ ReporterDone

PullNext ==
    \/ \E progress \in BOOLEAN : PullImage(progress)
    \/ \E h \in Handlers, d \in Digests \cup {Schema1Manifest} : HandlerCall(h, d)
    \/ \E ok \in BOOLEAN : ClientPull(ok)
    \/ PullerNext
    \/ \E h \in Handlers : HandlerNext(h)
    \/ ReporterNext
    \/ ConsumerEnd

Pull == Init /\ [][PullNext]_vars

\* Every goroutine that can take a step takes one in the end, and the backend's
\* pull comes to an end.
PullLive ==
    /\ Pull
    /\ WF_vars(PullerNext)
    /\ \A h \in Handlers : WF_vars(HandlerNext(h))
    /\ WF_vars(ReporterNext)
    /\ WF_vars(ConsumerEnd)
    /\ WF_vars(\E ok \in BOOLEAN : ClientPull(ok))

(* ------------------------------------------------- properties of Pull *)

\* what the consumer shows is what the backend holds for the descriptors seen
SeenFinal ==
    /\ consumer.statRefs = store.descs
    /\ \A d \in Digests :
           consumer.statCached[d] =
               IF Found(d)
               THEN store.content[d] ELSE ""

\* C15: when PullImage, called with a progress channel, has returned, with an
\* image or with an error, the reporter has closed the channel, once, and has
\* finished; after the return nothing more reaches the consumer; when the
\* channel closes the consumer has been sent the final statuses.
C15_ClosedBeforeReturn ==
    /\ [](channel.closed <= 1)
    /\ []((puller.pc = "returned" /\ puller.progress)
          => channel.closed = 1 /\ reporter.pc = "done")
    /\ [](channel.closed = 1 => SeenFinal)
    /\ [][puller.pc = "returned"
          => /\ reporter' = reporter
             /\ channel' = channel
             /\ consumer'.statRefs = consumer.statRefs
             /\ consumer'.statCached = consumer.statCached]_vars

\* PullImage has returned an error after a pull that had recorded content, and
\* the consumer's range has ended.
C15_Witness ==
    /\ puller.pc = "returned"
    /\ puller.progress
    /\ puller.err # Ok
    /\ store.descs # <<>>
    /\ channel.closed = 1
    /\ consumer.pc = "finished"

\* C16: once client.Pull has returned, PullImage returns in the end, and with a
\* progress channel the reporter has been cancelled and has finished by then;
\* the consumer reads the channel until it is closed.
C16_PullReturns ==
    (puller.pc = "reset")
    ~> (/\ puller.pc = "returned"
        /\ puller.progress => (puller.cancelled /\ reporter.pc = "done"))

\* PullImage waits for the reporter, which has been cancelled and has its last
\* update to send.
C16_Witness ==
    /\ puller.pc = "wait"
    /\ reporter.pc = "send"
    /\ reporter.final
    /\ consumer.pc = "ranging"

\* the descriptors seen hold no digest twice
NoDuplicates ==
    \A m, n \in 1..Len(store.descs) : m # n => store.descs[m] # store.descs[n]

\* the consumer's list at the end: an entry for every descriptor seen, in the
\* order they were seen, each with the status last sent
FinalList ==
    consumer.pc = "finished" =>
        /\ consumer.statRefs = store.descs
        /\ Len(reporter.batch) = Len(consumer.statRefs)
        /\ \A n \in 1..Len(consumer.statRefs) :
               /\ reporter.batch[n].Reference = consumer.statRefs[n]
               /\ consumer.statCached[consumer.statRefs[n]] = reporter.batch[n].Status

\* the list of descriptors seen changes by a digest appended only
FirstSeenOrder ==
    \/ store'.descs = store.descs
    \/ \E d \in Digests : store'.descs = Append(store.descs, d)

C18_SignalsIgnoredWhilePulling ==
    /\ puller.signals = "ignored" <=> puller.pc \in {"pull", "reset"}
    /\ puller.pc = "returned" => puller.signals = "default"

\* PullImage has returned an error, and signals are at their default.
C18_Witness ==
    /\ puller.pc = "returned"
    /\ puller.err # Ok
    /\ puller.signals = "default"
    /\ store.events > 0

(* ------------------------------ Codec: composeCtrdID and splitCtrdID applied *)

\* a group of an ID is up to MaxExtra bytes shorter or longer than a domain
MaxExtra == 1

\* domains and container IDs: the first and the last byte vary
Values16 ==
    {[n \in 1..IdLen |-> IF n = 1 THEN a ELSE IF n = IdLen THEN b ELSE 0] :
        a \in {0, 171, 255}, b \in {0, 10, 255}}

\* the groups IDs are put together from: the encoding of a value, of fewer and
\* of more bytes, with an upper-case digit, with a digit cut off, with a
\* character that is no hex digit, and the empty group
Groups ==
    LET vs == {Bytes16(10), [n \in 1..IdLen |-> 171]}
    IN  {Encode(v) : v \in vs}
        \cup {Encode(SubSeq(v, 1, IdLen - k)) : v \in vs, k \in 1..MaxExtra}
        \cup {Encode(v \o [n \in 1..k |-> 1]) : v \in vs, k \in 1..MaxExtra}
        \cup {[Encode(v) EXCEPT ![2] = "A"] : v \in vs}
        \cup {Tail(Encode(v)) : v \in vs}
        \cup {[Encode(v) EXCEPT ![1] = "g"] : v \in vs}
        \cup {<<>>}

Separators == {<<>>, <<"-">>, <<"-", "-">>}

\* composeCtrdID(domain, id), and the ID split
SplitComposed(domain, id) ==
    /\ codec = NoSplit
    /\ codec' = [key |-> Compose(domain, id), of |-> <<domain, id>>,
                 result |-> <<splitCtrdID(Compose(domain, id))>>]
    /\ UNCHANGED <<containers, tasks, snapshots, created, ctr, last, done, procs, pulling,
                   runtimes, applied>>

\* splitCtrdID(ctrdID) for the ID of a container the daemon lists
SplitListed(ctrdID) ==
    /\ codec = NoSplit
    /\ codec' = [key |-> ctrdID, of |-> None, result |-> <<splitCtrdID(ctrdID)>>]
    /\ UNCHANGED <<containers, tasks, snapshots, created, ctr, last, done, procs, pulling,
                   runtimes, applied>>

CodecNext ==
    \/ \E domain \in Values16, id \in Values16 : SplitComposed(domain, id)
    \/ \E g1 \in Groups, sep \in Separators, g2 \in Groups : SplitListed(g1 \o sep \o g2)

Codec == Init /\ [][CodecNext]_vars

(* ------------------------------------------------ properties of Codec *)

\* two groups of 2 * IdLen hex digits with one delimiter between them
WellFormed(key) ==
    /\ Len(key) = 4 * IdLen + 1
    /\ key[2 * IdLen + 1] = "-"
    /\ \A n \in 1..Len(key) : n # 2 * IdLen + 1 => FromHexChar(key[n]) >= 0

\* C19 (as stated): splitCtrdID returns InvalidArgument for every ID that is
\* not two hex-encoded groups of 16 bytes with one delimiter between them, and
\* accepts the others; it never accepts padded or cut bytes and never panics.
C19_AsStated ==
    codec.result # None =>
        IF WellFormed(codec.key) THEN codec.result[1].err = Ok
        ELSE codec.result[1].err = ErrInvalidArgument

\* C20: for every domain and id, the composed ID is the lowercase hex of the
\* domain, "-", and the lowercase hex of the id, and splitCtrdID returns that
\* domain and that id from it, with no error.
C20_RoundTrip ==
    codec.of # None =>
        /\ codec.result[1] = [dom |-> codec.of[1], id |-> codec.of[2], err |-> Ok]
        /\ Len(codec.key) = 4 * IdLen + 1
        /\ codec.key[2 * IdLen + 1] = "-"
        /\ \A n \in 1..Len(codec.key) :
               n # 2 * IdLen + 1 => \E h \in 1..16 : HexDigits[h] = codec.key[n]
        /\ Decode(SubSeq(codec.key, 1, 2 * IdLen)).bytes = codec.of[1]
        /\ Decode(SubSeq(codec.key, 2 * IdLen + 2, 4 * IdLen + 1)).bytes = codec.of[2]

\* An ID composed of a domain and an id with bytes above 9 and letters in
\* their hex has been split.
C20_Witness ==
    /\ codec.of # None
    /\ codec.of[1] # codec.of[2]
    /\ codec.of[1][1] = 171
    /\ codec.of[2][IdLen] = 255
    /\ codec.result[1].err = Ok

(* --------------------------------- Registry: runtime.Register and runtime.Open *)

\* everything but the registry and the call last made
others ==
    <<containers, tasks, snapshots, created, ctr, last, done, procs, pulling, codec>>

\* A Register that binds the name whatever it is bound to.
RegisterOverwriting(name, runType) ==
    /\ runtimes' = [runtimes EXCEPT ![name] = <<runType>>]
    /\ applied' = [op |-> "Register", name |-> name, runType |-> runType, err |-> Ok,
                   pre |-> runtimes]
    /\ UNCHANGED others

\* runtime.Register; the nil map of line 59 is the map with no name bound
Register(name, runType) ==
    /\ IF runtimes[name] # None
       THEN /\ applied' = [op |-> "Register", name |-> name, runType |-> runType,
                           err |-> ErrAlreadyExists, pre |-> runtimes]
            /\ UNCHANGED runtimes
       ELSE /\ runtimes' = [runtimes EXCEPT ![name] = <<runType>>]
            /\ applied' = [op |-> "Register", name |-> name, runType |-> runType,
                           err |-> Ok, pre |-> runtimes]
    /\ UNCHANGED others

\* runtime.Open: the registered type's Open is called, and succeeds or fails
Open(name, opened) ==
    /\ applied' = IF runtimes[name] = None
                  THEN [op |-> "Open", name |-> name, by |-> None, err |-> ErrNotFound,
                        pre |-> runtimes]
                  ELSE [op |-> "Open", name |-> name, by |-> runtimes[name],
                        err |-> IF opened THEN Ok ELSE ErrRuntime, pre |-> runtimes]
    /\ UNCHANGED <<others, runtimes>>

RegistryNext ==
    \/ \E name \in RuntimeNames, runType \in RuntimeTypes : Register(name, runType)
    \/ \E name \in RuntimeNames, opened \in BOOLEAN : Open(name, opened)

Registry == Init /\ [][RegistryNext]_vars

(* ---------------------------------------------- properties of Registry *)

\* C21: Register of a name that is bound returns AlreadyExists and leaves the
\* registry as it was, of a name that is not bound binds it to the type given
\* and nothing else; Open of a name that is not bound returns NotFound and
\* calls no type, Open of a bound name calls the type bound to it and returns
\* what that returns; Open changes nothing in the registry.
C21_Registry ==
    /\ applied.op = "Register" =>
           IF applied.pre[applied.name] # None
           THEN applied.err = ErrAlreadyExists /\ runtimes = applied.pre
           ELSE /\ applied.err = Ok
                /\ runtimes = [applied.pre EXCEPT ![applied.name] = <<applied.runType>>]
    /\ applied.op = "Open" =>
           /\ runtimes = applied.pre
           /\ IF runtimes[applied.name] = None
              THEN applied.err = ErrNotFound /\ applied.by = None
              ELSE applied.by = runtimes[applied.name] /\ applied.err # ErrNotFound

\* A second Register of a name with another type was refused and the first
\* type is still bound.
C21_Witness ==
    /\ applied.op = "Register"
    /\ applied.err = ErrAlreadyExists
    /\ runtimes[applied.name] # <<applied.runType>>
    /\ runtimes[applied.name] # None

(* ------------------------------------------------ snapshot enumeration *)

\* the most snapshots the store holds in one enumeration
MaxSnapshots == 3

SnapshotNames == 1 .. MaxSnapshots

RECURSIVE Rooted(_, _, _)
\* the parent chain of a snapshot ends: the store holds no cycle
Rooted(parent, name, steps) ==
    IF parent[name] = None THEN TRUE
    ELSE IF steps = 0 THEN FALSE
    ELSE Rooted(parent, parent[name][1], steps - 1)

\* the snapshot forests of a store: every snapshot has no parent or a parent
\* that is in the store
Forests(present) ==
    {parent \in [present -> {None} \cup {<<n>> : n \in present}] :
        \A n \in present : Rooted(parent, n, Cardinality(present))}

\* the orders in which the backend walk visits the snapshots of a store
WalkOrders(present) ==
    {order \in [1 .. Cardinality(present) -> present] :
        \A i, j \in DOMAIN order : order[i] = order[j] => i = j}

RECURSIVE WalkFn(_, _)
\* the callback given to Walk, applied to the infos in the order visited
WalkFn(infos, st) ==
    IF infos = <<>> THEN st
    ELSE LET info == Head(infos)
             kept == IF info.Name \notin st.isParent
                     THEN st.snapMap \cup {info.Name}
                     ELSE st.snapMap
             parents == IF info.Parent # None
                        THEN st.isParent \cup {info.Parent[1]}
                        ELSE st.isParent
         IN WalkFn(Tail(infos), [snapMap |-> kept, isParent |-> parents])

\* Snapshots that returns what the walk collected
SnapshotsUnswept(infos, walked) ==
    IF ~walked THEN [err |-> ErrRuntime, snaps |-> {}]
    ELSE [err |-> Ok, snaps |-> WalkFn(infos, [snapMap |-> {}, isParent |-> {}]).snapMap]

\* containerdRuntime.Snapshots: the names of the snapshots returned
Snapshots(infos, walked) ==
    IF ~walked THEN [err |-> ErrRuntime, snaps |-> {}]
    ELSE LET st == WalkFn(infos, [snapMap |-> {}, isParent |-> {}])
         IN [err |-> Ok, snaps |-> st.snapMap \ st.isParent]

ListSnapshots(infos, walked) ==
    /\ applied.op = "none"
    /\ applied' = [op |-> "Snapshots", infos |-> infos, walked |-> walked,
                   result |-> Snapshots(infos, walked)]
    /\ UNCHANGED <<others, runtimes>>

ListingNext ==
    \E present \in SUBSET SnapshotNames, walked \in BOOLEAN :
        \E parent \in Forests(present), order \in WalkOrders(present) :
            ListSnapshots([i \in DOMAIN order |->
                              [Name |-> order[i], Parent |-> parent[order[i]]]],
                          walked)

Listing == Init /\ [][ListingNext]_vars

(* ----------------------------------------------- properties of Listing *)

Visited(infos) == {infos[i].Name : i \in DOMAIN infos}

IsParentOfAnother(infos, name) == \E i \in DOMAIN infos : infos[i].Parent = <<name>>

\* C22: for every snapshot forest and every order of the walk, the snapshots
\* returned are the visited snapshots that are not the parent of another one.
C22_LeavesOnly ==
    (applied.op = "Snapshots" /\ applied.walked) =>
        /\ applied.result.err = Ok
        /\ applied.result.snaps =
               {n \in Visited(applied.infos) : ~IsParentOfAnother(applied.infos, n)}

\* A parent was visited before its child, which itself has a child visited
\* before it, and only the leaf was returned.
C22_Witness ==
    /\ applied.op = "Snapshots"
    /\ applied.walked
    /\ Len(applied.infos) = 3
    /\ applied.infos[1].Parent = None
    /\ applied.infos[3].Parent = <<applied.infos[1].Name>>
    /\ applied.infos[2].Parent = <<applied.infos[3].Name>>
    /\ applied.result.snaps = {applied.infos[2].Name}

(* ------------------------------------- errors the callers of Spec receive *)

\* errdefs: the errors of the taxonomy
Taxonomy == {ErrNotFound, ErrAlreadyExists, ErrInvalidArgument, "NotImplemented"}

\* C23 (as stated): an error returned by Get, Create, Commit, Snapshot, Delete
\* or Purge after a backend failure is an error of the taxonomy or the generic
\* runtime error, never the backend's own error.
C23_AsStated ==
    (/\ last.op \in {"Get", "Create", "Commit", "Snapshot", "Delete", "Purge"}
     /\ last.err \notin {Ok, Panic})
        => last.err \in Taxonomy \cup {ErrRuntime}

(* ------------------------------------------ completion of a process spec *)

\* runspecs.Spec values a caller passes: no process, or a process with or
\* without argv and cwd; with or without a Linux section
CallerSpecs ==
    [Process : {None} \cup {<<p>> : p \in [Args : {<<>>, <<"/bin/sh">>},
                                            Cwd : {"", "/home"}]},
     Linux : BOOLEAN]

\* the OCI configs of images
ImageConfigs ==
    [Entrypoint : {<<>>, <<"/entry">>}, Cmd : {<<>>, <<"run">>},
     WorkingDir : {"", "/work"}]

\* lines 615-632 of Create applied to a spec and an image config
CompleteOnCreate(spec, config) ==
    /\ applied.op = "none"
    /\ applied' = [op |-> "Create", spec |-> spec, config |-> config,
                   result |-> createSpec(spec, config)]
    /\ UNCHANGED <<others, runtimes>>

\* lines 658-676 of UpdateSpec applied to a spec and an image config
CompleteOnUpdate(newSpec, config) ==
    /\ applied.op = "none"
    /\ applied' = [op |-> "UpdateSpec", spec |-> newSpec, config |-> config,
                   result |-> updateSpec(newSpec, config)]
    /\ UNCHANGED <<others, runtimes>>

CompletionNext ==
    \/ \E spec \in CallerSpecs, config \in ImageConfigs : CompleteOnCreate(spec, config)
    \/ \E spec \in CallerSpecs, config \in ImageConfigs : CompleteOnUpdate(spec, config)

Completion == Init /\ [][CompletionNext]_vars

(* -------------------------------------------- properties of Completion *)

\* the caller's argv, empty when the spec has no process
CallerArgs(spec) == IF spec.Process = None THEN <<>> ELSE spec.Process[1].Args

\* C24 (as stated): after Create or UpdateSpec the argv is the caller's argv
\* when the caller gave one and the image's entrypoint followed by its cmd
\* otherwise, and the cwd is the image's working directory or "/" when the
\* image has none, with or without a Linux section in the spec.
C24_AsStated ==
    applied.op \in {"Create", "UpdateSpec"} =>
        /\ applied.result.Process[1].Args =
               IF CallerArgs(applied.spec) # <<>> THEN CallerArgs(applied.spec)
               ELSE applied.config.Entrypoint \o applied.config.Cmd
        /\ applied.result.Process[1].Cwd =
               IF applied.config.WorkingDir = "" THEN "/"
               ELSE applied.config.WorkingDir

(* ------------------------------------ labels of a created container object *)

\* C25 (as stated): after a successful Create the container object carries
\* the generation label, the hex encoding of the handle's generation, the uid
\* label, the handle's uid, and a label for the gid, and a load of the
\* container reads the same generation and uid back.
C25_AsStated ==
    (last.op = "Create" /\ last.err = Ok) =>
        LET ctrdID == composeCtrdID(last.domain, last.id)
            labels == containers[ctrdID][1].labels
        IN  /\ labels[containerdGenerationLabel] = EncodeToString(ctr[1].generation)
            /\ labels[containerdUIDLabel] = FormatUint(ctr[1].uid)
            /\ getGeneration(World, ctrdID, "none").gen = ctr[1].generation
            /\ getUID(World, ctrdID, "none").uid = ctr[1].uid
            /\ \E key \in DOMAIN labels :
                   key \notin {containerdGenerationLabel, containerdUIDLabel}

\* the part of C25 about the generation and the uid
GenerationAndUIDLabelled ==
    (last.op = "Create" /\ last.err = Ok) =>
        LET ctrdID == composeCtrdID(last.domain, last.id)
            labels == containers[ctrdID][1].labels
        IN  /\ labels[containerdGenerationLabel] = EncodeToString(ctr[1].generation)
            /\ labels[containerdUIDLabel] = FormatUint(ctr[1].uid)
            /\ getGeneration(World, ctrdID, "none").gen = ctr[1].generation
            /\ getUID(World, ctrdID, "none").uid = ctr[1].uid

(* ------------------------------- teardown order, properties of Concurrent *)

\* the positions of an invocation inside deleteCtrdTask
InTaskDeletion == {"deltask", "tstatus", "twait", "tkill", "tawait", "tdelete"}

\* an invocation comes to the deletion of the container object only with the
\* task deleted or found absent
TaskBeforeObject ==
    \A p \in Procs :
        (procs[p].pc # "delctr" /\ procs'[p].pc = "delctr") => tasks'[TheKey] = None

\* the step that removes a container object is the object's deletion by a
\* teardown, made while the container has no task
ObjectRemovedLast ==
    (containers[TheKey] # None /\ containers'[TheKey] = None)
    => /\ tasks[TheKey] = None
       /\ \E p \in Procs : procs[p].pc = "delctr"

\* a teardown that returns out of the task's deletion has left the container
\* object and the snapshots as they were
FailureKeepsObject ==
    \A p \in Procs :
        (procs[p].pc \in InTaskDeletion /\ procs'[p].pc = "idle")
        => containers' = containers /\ snapshots' = snapshots

\* the error of the task's deletion is returned to the handler, which returns
\* it to its caller; Get returns NotFound in its place
FailureReturned ==
    \A p \in Procs :
        (procs[p].pc \in InTaskDeletion /\ procs'[p].pc = "idle")
        => procs'[p].err = IF procs[p].op = "Get" THEN ErrNotFound ELSE ErrRuntime

NoTaskWithoutObject == \A c \in CtrdIDs : tasks[c] # None => containers[c] # None

C27_AsStated ==
    (last.op = "Commit" /\ last.err = Ok) =>
        /\ ctr[1].generation = last.gen
        /\ ctr[1].generation =
               getGeneration(World, composeCtrdID(last.domain, last.id), "none").gen

(* --------------------- Exec when the task cannot be made, property of Spec *)

\* the step is an Exec on a bound handle that found no task and went on to
\* createTask
ExecCreatesTask ==
    /\ last'.op = "Exec"
    /\ ctr # None
    /\ ctr[1].ctrdContainer # None
    /\ tasks[ctr[1].ctrdContainer] = None
    /\ last'.fault # "Task"

\* createTask got the mounts of the active snapshot
MountsObtained ==
    /\ snapshots[<<ctr[1].domain, ctr[1].id>>].active
    /\ last'.fault # "Snapshotter"

\* NewTask failed: it was made to fail, or the container object is gone
NewTaskFailed ==
    last'.fault = "NewTask" \/ containers[ctr[1].ctrdContainer] = None

\* the teardown after a failed NewTask: no task, no container object, the
\* snapshots as they were, the handle cleared, the generic runtime error
\* returned, and a Get of the key with whatever generation returns NotFound
TornDownAfterNewTask ==
    (ExecCreatesTask /\ MountsObtained /\ NewTaskFailed) =>
        /\ containers'[ctr[1].ctrdContainer] = None
        /\ tasks'[ctr[1].ctrdContainer] = None
        /\ snapshots' = snapshots
        /\ ctr'[1].ctrdContainer = None
        /\ last'.err = ErrRuntime
        /\ \A g \in Generations :
               getContainer([ctrs |-> containers', tasks |-> tasks', snaps |-> snapshots',
                             created |-> created'],
                            ctr[1].domain, ctr[1].id, g, "none").err = ErrNotFound

\* without the mounts Exec returns an error and deletes nothing
KeptWithoutMounts ==
    (ExecCreatesTask /\ ~MountsObtained) =>
        /\ last'.err = ErrRuntime
        /\ UNCHANGED <<containers, tasks, snapshots, ctr>>

ClientCreate(g) ==
    /\ \A p \in Procs : procs[p].pc = "idle"
    /\ created < MaxCreates
    /\ SetWorld(Create(World, NewContainer(TheDomain, TheId, g, "img",
                                           [Process |-> None, Linux |-> TRUE]), "none").w)
    /\ UNCHANGED <<ctr, last, done, procs, aside>>

\* the client's SetRootFs, taken as one step, while no Exec runs
ClientSetRootFs ==
    /\ \A p \in Procs : procs[p].pc = "idle"
    /\ containers[TheKey] # None
    /\ SetWorld(SetRootFs(World, Handle(1), "none").w)
    /\ UNCHANGED <<ctr, last, done, procs, aside>>

\* an invocation begins an Exec on the container, which has an active snapshot
ExecInvoke(p) ==
    /\ procs[p].pc = "idle"
    /\ containers[TheKey] # None
    /\ snapshots[<<TheDomain, TheId>>].active
    /\ procs' = [procs EXCEPT ![p] = [op |-> "Exec", pc |-> "task", gen |-> None,
                                      replaced |-> FALSE, err |-> Ok, calls |-> <<>>]]
    /\ UNCHANGED <<containers, tasks, snapshots, created, ctr, last, done, aside>>

\* Exec, lines 738-741: the task of the container is looked up
ExecTask(p) ==
    /\ At(p, "Exec", "task")
    /\ LET t == CtrdTask(World, TheKey, "none")
       IN  IF t # Ok /\ IsNotFound(t) THEN Goto(p, "newtask")
           ELSE IF t # Ok THEN Return(p, ErrRuntime)
           ELSE Goto(p, "exec")
    /\ UNCHANGED <<containers, tasks, snapshots, created, ctr, last, done, aside>>

\* createTask, lines 509-515: the mounts are read and NewTask is called; when
\* it fails the handler goes on to delete the container (516)
ExecNewTask(p) ==
    /\ At(p, "Exec", "newtask")
    /\ LET m == getActiveSnapMounts(World, TheDomain, TheId, "none")
           t == CtrdNewTask(World, TheKey, m.name, "none")
       IN  IF m.err # Ok
           THEN /\ Return(p, ErrRuntime)
                /\ UNCHANGED <<containers, tasks, snapshots, created>>
           ELSE IF t.err # Ok
                THEN /\ Goto(p, "deltask")
                     /\ UNCHANGED <<containers, tasks, snapshots, created>>
           ELSE /\ SetWorld(t.w)
                /\ procs' = [procs EXCEPT ![p].pc = "exec", ![p].replaced = TRUE]
    /\ UNCHANGED <<ctr, last, done, aside>>

\* Exec, lines 751-769: the process is made in the task and started; the
\* invocation keeps its name, to tell what returned
ExecStart(p) ==
    /\ At(p, "Exec", "exec")
    /\ procs' = [procs EXCEPT ![p].pc = "idle",
                              ![p].err = IF tasks[TheKey] = None THEN ErrRuntime
                                         ELSE IF tasks[TheKey][1].status = "stopped"
                                              THEN ErrRuntime
                                         ELSE Ok]
    /\ UNCHANGED <<containers, tasks, snapshots, created, ctr, last, done, aside>>

RacingNext ==
    \/ \E g \in Generations : ClientCreate(g)
    \/ ClientSetRootFs
    \/ TaskExit
    \/ \E p \in Procs :
           \/ ExecInvoke(p)
           \/ ExecTask(p)
           \/ ExecNewTask(p)
           \/ ExecStart(p)
           \/ DeleteTask(p)
           \/ TaskStatus(p)
           \/ TaskWait(p)
           \/ TaskKill(p)
           \/ TaskAwait(p)
           \/ TaskDelete(p)
           \/ DeleteObject(p)

Racing == Init /\ [][RacingNext]_vars

(* ------------------------------------------------ properties of Racing *)

\* C29 (as stated): of two Exec calls running side by side on a container
\* without a task none tears the container down: no Exec comes to delete the
\* task or the container object, and an Exec that has found or made the task
\* starts its process in it.
C29_AsStated ==
    \A p \in Procs :
        procs[p].op = "Exec" =>
            /\ procs[p].pc \notin InTaskDeletion \cup {"delctr"}
            /\ procs[p].pc = "exec" => tasks[TheKey] # None

(* ------------------------------------------------- container enumeration *)

\* the most containers the daemon lists in one enumeration
MaxListed == 2

OtherDomain == Bytes16(2)

\* the IDs of containers the daemon lists: of the model's domain, of another
\* domain, with a character that is no hex digit, and without a delimiter
ListedIDs ==
    {Compose(TheDomain, TheId), Compose(OtherDomain, TheId),
     [Compose(TheDomain, TheId) EXCEPT ![1] = "g"], <<"n", "g", "i", "n", "x">>}

\* the labels of a listed container: as Create writes them, with a generation
\* that is no hex string, and without the uid
ListedLabels ==
    {(containerdGenerationLabel :> Encode(Bytes16(171))) @@ (containerdUIDLabel :> <<"0">>),
     (containerdGenerationLabel :> <<"x", "y">>) @@ (containerdUIDLabel :> <<"0">>),
     (containerdGenerationLabel :> Encode(Bytes16(171)))}

\* what client.Containers returns: containers of distinct IDs
Listings ==
    {l \in UNION {[1..n -> [ID : ListedIDs, labels : ListedLabels]] : n \in 0..MaxListed} :
        \A i, j \in DOMAIN l : l[i].ID = l[j].ID => i = j}

\* the values a caller passes as filters: a [16]byte domain, or a value of
\* another type
FilterValues ==
    {[isDomain |-> TRUE, val |-> TheDomain], [isDomain |-> FALSE, val |-> Copy16(<<>>)]}

FilterLists ==
    {<<>>} \cup {<<v>> : v \in FilterValues}
           \cup {<<v, [isDomain |-> TRUE, val |-> OtherDomain]>> : v \in FilterValues}

\* the daemon state in which the labels of a listed container are read
Listed(c) == [ctrs |-> (c.ID :> <<[labels |-> c.labels]>>)]

RECURSIVE ContainersLoop(_, _, _, _)
\* getContainers, lines 392-429: the loop over the containers listed
ContainersLoop(ctrdCtrs, hasDomain, domain, runCtrs) ==
    IF ctrdCtrs = <<>> THEN [err |-> Ok, ctrs |-> runCtrs, called |-> TRUE]
    ELSE LET c == Head(ctrdCtrs)
             s == splitCtrdID(c.ID)
             g == getGeneration(Listed(c), c.ID, "none")
             u == getUID(Listed(c), c.ID, "none")
         IN  IF s.err # Ok THEN [err |-> s.err, ctrs |-> <<>>, called |-> TRUE]
             ELSE IF hasDomain /\ s.dom # domain
                  THEN ContainersLoop(Tail(ctrdCtrs), hasDomain, domain, runCtrs)
             ELSE IF g.err # Ok
                  THEN ContainersLoop(Tail(ctrdCtrs), hasDomain, domain, runCtrs)
             ELSE IF u.err # Ok
                  THEN ContainersLoop(Tail(ctrdCtrs), hasDomain, domain, runCtrs)
             ELSE ContainersLoop(Tail(ctrdCtrs), hasDomain, domain,
                      Append(runCtrs, newContainer(c.ID, s.dom, s.id, g.gen, u.uid, "img",
                                                   [Process |-> None, Linux |-> TRUE])))

\* getContainers(filters...); ctrdCtrs is what client.Containers returns, or,
\* with listed false, would have returned had it not failed
getContainers(ctrdCtrs, filters, listed) ==
    IF Len(filters) > 1 THEN [err |-> ErrInvalidArgument, ctrs |-> <<>>, called |-> FALSE]
    ELSE IF Len(filters) = 1 /\ ~filters[1].isDomain
         THEN [err |-> ErrInvalidArgument, ctrs |-> <<>>, called |-> FALSE]
    ELSE IF ~listed THEN [err |-> ErrRuntime, ctrs |-> <<>>, called |-> TRUE]
    ELSE ContainersLoop(ctrdCtrs, Len(filters) = 1,
                        IF Len(filters) = 1 THEN filters[1].val ELSE Copy16(<<>>), <<>>)

ListContainers(ctrdCtrs, filters, listed) ==
    /\ applied.op = "none"
    /\ applied' = [op |-> "getContainers", listing |-> ctrdCtrs, filters |-> filters,
                   listed |-> listed, result |-> getContainers(ctrdCtrs, filters, listed)]
    /\ UNCHANGED <<others, runtimes>>

EnumerationNext ==
    \E ctrdCtrs \in Listings, filters \in FilterLists, listed \in BOOLEAN :
        ListContainers(ctrdCtrs, filters, listed)

Enumeration == Init /\ [][EnumerationNext]_vars

(* ------------------------------------------- properties of Enumeration *)

\* a listed container is returned: its ID splits into the domain asked for,
\* if one is, and its generation and uid labels can be read
Returnable(c) ==
    /\ splitCtrdID(c.ID).err = Ok
    /\ applied.filters # <<>> => splitCtrdID(c.ID).dom = applied.filters[1].val
    /\ getGeneration(Listed(c), c.ID, "none").err = Ok
    /\ getUID(Listed(c), c.ID, "none").err = Ok

\* the enumeration fails with InvalidArgument before the backend is called for
\* more than one filter and for a filter that is no domain; it fails with the
\* error unsplit when the ID of a listed container cannot be split, whatever
\* its domain; otherwise it returns the listed containers that are Returnable,
\* in the order listed
EnumeratedWith(unsplit) ==
    LET r == applied.result
        fs == applied.filters
        kept == SelectSeq(applied.listing, Returnable)
    IN  IF Len(fs) > 1 \/ (Len(fs) = 1 /\ ~fs[1].isDomain)
        THEN r.err = ErrInvalidArgument /\ ~r.called
        ELSE IF ~applied.listed THEN r.err = ErrRuntime
        ELSE IF \E n \in DOMAIN applied.listing : splitCtrdID(applied.listing[n].ID).err # Ok
             THEN r.err \in unsplit
        ELSE /\ r.err = Ok
             /\ [n \in DOMAIN r.ctrs |-> r.ctrs[n].ctrdContainer]
                    = [n \in DOMAIN kept |-> kept[n].ID]
             /\ \A n \in DOMAIN r.ctrs :
                    /\ fs # <<>> => r.ctrs[n].domain = fs[1].val
                    /\ Compose(r.ctrs[n].domain, r.ctrs[n].id) = r.ctrs[n].ctrdContainer

\* C30 (as stated): a listing with a domain filter returns the containers of
\* that domain only; more than one filter, or a filter that is no domain,
\* fails with InvalidArgument before any backend call; a container whose
\* generation or uid cannot be read is skipped; one ID that cannot be split
\* makes the listing fail with InvalidArgument, whatever its domain.
C30_AsStated ==
    applied.op = "getContainers" => EnumeratedWith({ErrInvalidArgument})

\* the same, with the listing ending in a panic on an ID without a delimiter
EnumeratedAsCoded ==
    applied.op = "getContainers" => EnumeratedWith({ErrInvalidArgument, Panic})

(* ------------------------------- Tenancy: Snapshots called for a domain *)

\* the domains the snapshot chains of a store belong to
ChainDomains == {TheDomain, OtherDomain}

\* the owners of the snapshots of a forest: a snapshot is of the domain of its
\* parent, so the chains of two domains are disjoint
Owners(present, parent) ==
    {owner \in [present -> ChainDomains] :
        \A n \in present : parent[n] # None => owner[parent[n][1]] = owner[n]}

\* containerdRuntime.Snapshots(domain): the parameter is not read
SnapshotsOf(domain, infos, owner, walked) ==
    /\ applied.op = "none"
    /\ applied' = [op |-> "SnapshotsOf", domain |-> domain, infos |-> infos,
                   owner |-> owner, walked |-> walked,
                   result |-> Snapshots(infos, walked)]
    /\ UNCHANGED <<others, runtimes>>

\* one enumeration is made, of any store
TenancyNext ==
    /\ applied.op = "none"
    /\ \E present \in SUBSET SnapshotNames, walked \in BOOLEAN, domain \in ChainDomains :
           \E parent \in Forests(present), order \in WalkOrders(present) :
               \E owner \in Owners(present, parent) :
                   SnapshotsOf(domain,
                               [i \in DOMAIN order |->
                                   [Name |-> order[i], Parent |-> parent[order[i]]]],
                               owner, walked)

Tenancy == Init /\ [][TenancyNext]_vars

(* ----------------------------------------------- properties of Tenancy *)

\* C31 (as stated): Snapshots(domain) returns snapshots of the given domain
\* only; with the chains of two domains in the store, no snapshot of the one
\* is in the enumeration of the other.
C31_AsStated ==
    applied.op = "SnapshotsOf" =>
        \A name \in applied.result.snaps : applied.owner[name] = applied.domain

\* the enumeration is the same for every domain: the leaves of all chains
AllLeavesWhateverDomain ==
    (applied.op = "SnapshotsOf" /\ applied.walked) =>
        applied.result.snaps =
            {n \in Visited(applied.infos) : ~IsParentOfAnother(applied.infos, n)}

(* ------------- Foreign: containers under the key that Create did not make *)

\* the labels of a container another client of the daemon has made under the
\* key: without a generation, with a generation of one byte, and with a
\* generation of 15 bytes
ForeignLabels ==
    {(containerdUIDLabel :> <<"0">>),
     (containerdGenerationLabel :> <<"0", "0">>) @@ (containerdUIDLabel :> <<"0">>),
     (containerdGenerationLabel :> <<"a", "b">>) @@ (containerdUIDLabel :> <<"0">>),
     (containerdGenerationLabel :> Encode([n \in 1..(IdLen - 1) |-> 0]))
         @@ (containerdUIDLabel :> <<"0">>)}

\* a container appears under the key, made by another client
ForeignCreate(labels) ==
    /\ containers[TheKey] = None
    /\ created < MaxCreates
    /\ containers' = [containers EXCEPT ![TheKey] =
                         <<[labels |-> labels, spec |-> [Process |-> None, Linux |-> TRUE],
                            image |-> "img", oid |-> created + 1]>>]
    /\ created' = created + 1
    /\ last' = NoCall
    /\ UNCHANGED <<tasks, snapshots, ctr, done, procs, aside>>

ForeignNext ==
    \/ \E labels \in ForeignLabels : ForeignCreate(labels)
    \/ CallNewContainer
    \/ CallSetRootFs
    \/ CallGet
    \/ CallDeleteContainer

Foreign == Init /\ [][ForeignNext]_vars

(* ----------------------------------------------- properties of Foreign *)

\* the generation label of the container under the key is missing or decodes
\* to fewer than 16 bytes
ShortGeneration(c) ==
    /\ containers[c] # None
    /\ \/ containerdGenerationLabel \notin DOMAIN containers[c][1].labels
       \/ LET d == DecodeString(containers[c][1].labels[containerdGenerationLabel])
          IN  d.ok /\ Len(d.bytes) < IdLen

\* C33 (as stated): a container without a generation label, or with one that
\* decodes to fewer than 16 bytes, is returned by no Get, whatever the
\* generation asked for, the all-zero generation included.
C33_AsStated ==
    (last.op = "Get" /\ ShortGeneration(composeCtrdID(last.domain, last.id)))
        => last.err # Ok

(* ------------------------------------------ Command: the exec command, execRunE *)

\* the workspaces a project has: one without a base image and one with
Workspaces == {[origin |-> ""], [origin |-> "image"]}

\* what container.Get returns: the container that is there, NotFound, or the
\* error of the runtime
GetOutcomes ==
    {[ctr |-> <<"cached">>, err |-> Ok], [ctr |-> None, err |-> ErrNotFound],
     [ctr |-> None, err |-> ErrRuntime], [ctr |-> None, err |-> ErrInvalidArgument]}

\* the arguments of the command
CommandArgs == {<<"ls">>, <<"make", "all">>}

\* the command at a step, with the calls it has made
Command(pc, ws, got, built, err, calls) ==
    [op |-> "execRunE", pc |-> pc, ws |-> ws, got |-> got, built |-> built,
     err |-> err, calls |-> calls, in |-> None, argv |-> <<>>, code |-> 0]

\* no answer of container.Get yet
NotAsked == [ctr |-> None, err |-> Ok]

\* the deferred run.Close, which runs when execRunE returns
Closing(calls) == Append(calls, "Close")

\* A command that builds whenever it has no container, whatever the error.
AfterGetIgnoringError(got) ==
    IF got.ctr = None THEN [pc |-> "buildContainer", err |-> Ok]
    ELSE [pc |-> "Exec", err |-> Ok]

\* execRunE, lines 42-52: what the command does with the answer of Get
AfterGet(got) ==
    IF got.err # Ok /\ got.err # ErrNotFound THEN [pc |-> "returned", err |-> got.err]
    ELSE IF got.ctr = None THEN [pc |-> "buildContainer", err |-> Ok]
    ELSE [pc |-> "Exec", err |-> Ok]

\* execRunE up to runtime.Open: the project is loaded, its current workspace
\* taken, and the runtime configured opened
execRunE(loaded, current, name, opened) ==
    /\ applied.op \in {"none", "Register"}
    /\ applied' =
           IF ~loaded
           THEN Command("returned", None, NotAsked, None, ErrRuntime, <<"Load">>)
           ELSE IF current = None
           THEN Command("returned", None, NotAsked, None, ErrNotFound,
                        <<"Load", "CurrentWorkspace">>)
           ELSE IF runtimes[name] = None
           THEN Command("returned", current, NotAsked, None, ErrNotFound,
                        <<"Load", "CurrentWorkspace", "Open">>)
           ELSE IF ~opened
           THEN Command("returned", current, NotAsked, None, ErrRuntime,
                        <<"Load", "CurrentWorkspace", "Open">>)
           ELSE Command("Get", current, NotAsked, None, Ok,
                        <<"Load", "CurrentWorkspace", "Open">>)
    /\ UNCHANGED <<others, runtimes>>

\* container.Get and the two tests on what it returned
containerGet(got) ==
    /\ applied.op = "execRunE"
    /\ applied.pc = "Get"
    /\ LET calls == Append(applied.calls, "Get")
       IN  applied' = [applied EXCEPT
               !.got = got,
               !.pc = AfterGet(got).pc,
               !.err = AfterGet(got).err,
               !.calls = IF AfterGet(got).pc = "returned" THEN Closing(calls) ELSE calls]
    /\ UNCHANGED <<others, runtimes>>

\* buildContainer, the test of the workspace's image
buildContainer ==
    /\ applied.op = "execRunE"
    /\ applied.pc = "buildContainer"
    /\ LET calls == Append(applied.calls, "buildContainer")
       IN  applied' = IF applied.ws[1].origin = ""
                      THEN [applied EXCEPT !.pc = "returned", !.err = ErrInvalidArgument,
                                           !.calls = Closing(calls)]
                      ELSE [applied EXCEPT !.pc = "pullImage", !.calls = calls]
    /\ UNCHANGED <<others, runtimes>>

\* pullImage, and buildContainer's return of its error
pullImage(pulled) ==
    /\ applied.op = "execRunE"
    /\ applied.pc = "pullImage"
    /\ LET calls == Append(applied.calls, "PullImage")
       IN  applied' = IF pulled
                      THEN [applied EXCEPT !.pc = "Create", !.calls = calls]
                      ELSE [applied EXCEPT !.pc = "returned", !.err = ErrRuntime,
                                           !.calls = Closing(calls)]
    /\ UNCHANGED <<others, runtimes>>

\* container.Create, and buildContainer's return of the container or the error
containerCreate(err) ==
    /\ applied.op = "execRunE"
    /\ applied.pc = "Create"
    /\ LET calls == Append(applied.calls, "Create")
       IN  applied' = IF err = Ok
                      THEN [applied EXCEPT !.pc = "Exec", !.built = <<"built">>,
                                           !.calls = calls]
                      ELSE [applied EXCEPT !.pc = "returned", !.err = err,
                                           !.calls = Closing(calls)]
    /\ UNCHANGED <<others, runtimes>>

\* ctr.Exec in the container the command holds, with the shell put before the
\* arguments if asked for; os.Exit leaves without the deferred Close
ctrExec(execShell, args, err, code) ==
    /\ applied.op = "execRunE"
    /\ applied.pc = "Exec"
    /\ LET calls == Append(applied.calls, "Exec")
           held == IF applied.got.ctr # None THEN applied.got.ctr ELSE applied.built
           argv == IF execShell THEN <<"/bin/sh", "-c">> \o args ELSE args
       IN  applied' = IF err # Ok
                      THEN [applied EXCEPT !.pc = "returned", !.err = err, !.in = held,
                                           !.argv = argv, !.calls = Closing(calls)]
                      ELSE [applied EXCEPT !.pc = "exited", !.in = held, !.argv = argv,
                                           !.code = code, !.calls = calls]
    /\ UNCHANGED <<others, runtimes>>

CommandNext ==
    \/ /\ applied.op \in {"none", "Register"}
       /\ \E name \in RuntimeNames, runType \in RuntimeTypes : Register(name, runType)
    \/ \E loaded \in BOOLEAN, current \in {None} \cup {<<ws>> : ws \in Workspaces},
          name \in RuntimeNames, opened \in BOOLEAN :
           execRunE(loaded, current, name, opened)
    \/ \E got \in GetOutcomes : containerGet(got)
    \/ buildContainer
    \/ \E pulled \in BOOLEAN : pullImage(pulled)
    \/ \E err \in {Ok, ErrAlreadyExists, ErrRuntime} : containerCreate(err)
    \/ \E execShell \in BOOLEAN, args \in CommandArgs, err \in {Ok, ErrNotFound, ErrRuntime},
          code \in 0 .. 1 :
           /\ err = Ok \/ code = 0
           /\ ctrExec(execShell, args, err, code)

CommandFlow == Init /\ [][CommandNext]_vars

(* ---------------------------------------------- properties of CommandFlow *)

\* the call a was made, and before any call b
CalledFirst(a, b) ==
    \E i \in 1 .. Len(applied.calls) :
        /\ applied.calls[i] = a
        /\ \A j \in 1 .. i : applied.calls[j] # b

\* the command has made the call
Made(a) == \E i \in 1 .. Len(applied.calls) : applied.calls[i] = a

\* the command is past container.Get
PastGet == applied.op = "execRunE" /\ Made("Get")

\* Exec was called in the container Get returned, and nothing was built
ExecInCached ==
    /\ applied.got.err = Ok
    /\ applied.got.ctr # None
    /\ applied.in = applied.got.ctr
    /\ ~Made("buildContainer") /\ ~Made("PullImage") /\ ~Made("Create")

\* Exec was called in the container a build returned, which pulled the image
\* and then created the container, after Get reported NotFound
ExecInBuilt ==
    /\ applied.got.err = ErrNotFound
    /\ applied.built # None
    /\ applied.in = applied.built
    /\ CalledFirst("PullImage", "Create") /\ CalledFirst("Create", "Exec")

\* the command returned the error without a call of Exec
ReturnedWithoutExec(err) ==
    /\ applied.pc = "returned"
    /\ applied.err = err
    /\ ~Made("Exec")

\* C32: the exec command calls Exec only in the container Get returned, having
\* built nothing, or in the container a successful build returned; after a
\* NotFound of Get it builds, pulling the image before it creates the
\* container, and executes in what the build returned; an other error of Get
\* and a failure of the build are returned without a call of Exec; the build
\* of a workspace with no base image fails with InvalidArgument before any
\* pull or create.
C32_ExecFlow ==
    PastGet =>
        /\ Made("Exec") => ExecInCached \/ ExecInBuilt
        /\ applied.got.err = ErrNotFound =>
               /\ applied.pc # "buildContainer" => Made("buildContainer")
               /\ applied.pc \in {"Exec", "exited"} => applied.built # None
               /\ Made("Create") => CalledFirst("PullImage", "Create")
        /\ applied.got.err \notin {Ok, ErrNotFound} => ReturnedWithoutExec(applied.got.err)
        /\ (Made("buildContainer") /\ applied.built = None
                /\ applied.pc \notin {"pullImage", "Create"}) =>
               /\ applied.pc = "returned"
               /\ applied.err # Ok
               /\ ~Made("Exec")
        /\ (Made("buildContainer") /\ applied.ws[1].origin = "") =>
               /\ ReturnedWithoutExec(ErrInvalidArgument)
               /\ ~Made("PullImage") /\ ~Made("Create")

\* Get reported NotFound, the image was pulled, the container created and the
\* process executed in it, through the shell.
C32_Witness ==
    /\ PastGet
    /\ applied.got.err = ErrNotFound
    /\ applied.pc = "exited"
    /\ applied.in = <<"built">>
    /\ applied.calls = <<"Load", "CurrentWorkspace", "Open", "Get", "buildContainer",
                         "PullImage", "Create", "Exec">>
    /\ applied.argv = <<"/bin/sh", "-c", "ls">>

====
